---- MODULE Spec2Model ----
(***************************************************************************)
(* Metrics Acquisition & Alerting Core of mac_system_monitor.              *)
(*                                                                         *)
(*   alerts.py                          AlertEngine, _get_metric_value,    *)
(*                                      _eval_rule                         *)
(*   utils.py                           thermal_pressure_level             *)
(*   collectors/base.py                 CollectorResult.merge_into         *)
(*   collectors/powermetrics_collector.py, metrics.py                      *)
(*                                      _run_powermetrics (sampling cache) *)
(*   persistence.py                     HistoryPersistence                 *)
(*                                                                         *)
(* Python values are tagged records: None, a number, a string (a sequence  *)
(* of character codes, so that lower() and strip() are computed), a        *)
(* mapping.  Seconds are integers.                                         *)
(***************************************************************************)
EXTENDS Integers, Sequences, FiniteSets, TLC

VARIABLES
    \* ---- alerts.py: one AlertEngine and the wall clock it reads
    rules,          \* self.rules: sequence of AlertRule records
    events,         \* self.events: sequence of AlertEvent records
    last_fire,      \* self._last_fire: rule id -> time (a partial map)
    clock,          \* time.time()
    fired,          \* history variable: the events recorded since the last clear_events
    call,           \* history variable: the last engine operation and its result
    cooled,         \* history variable: rules inside their cooldown at the last
                    \* clear_events and not evaluated since
    \* ---- utils.py: one call of thermal_pressure_level
    tp_in,          \* how the argument was built (vocabulary word, casing, padding)
    tp_arg,         \* the argument passed
    tp_ret,         \* the returned level
    tp_pc,
    \* ---- collectors/base.py: one call of merge_into
    mg_data,        \* self.data
    mg_target,      \* target before the call
    mg_out,         \* target after the call
    mg_pc,
    \* ---- sampling cache: _run_powermetrics and its callers
    cache,          \* _powermetrics_cache: None or the pair (time, text)
    ttl,            \* cache_ttl / POWERMETRICS_CACHE_TTL_SEC
    wall,           \* time.time() as the cache's callers read it
    cpc,            \* caller -> position in _run_powermetrics
    cnow,           \* caller -> local now
    csampler,       \* caller -> index of the sampler configuration being tried
    craw,           \* caller -> local raw
    cret,           \* caller -> text returned by its last call
    runs,           \* history variable: calls of _run_powermetrics_impl so far
    goodrun,        \* history variable: the last completed call that ran the
                    \* tool and got text, None before the first
    lastcall,       \* history variable: the completed call before thiscall
    thiscall,       \* history variable: the most recently completed call
    \* ---- collectors/: one call of a collector's collect or collect_safe
    host,           \* the machine: platform.system() and whether psutil imports
    col_pc,         \* position of the call
    col_call,       \* the collector called and whether through collect_safe
    col_loc,        \* locals of ExternalToolsCollector.collect: tool index, temps, fans
    col_seen,       \* history variable: what each helper tool run did, in order
    col_raw,        \* history variable: how collect itself ended
    col_out,        \* how the call ended: a returned result or a raised exception
    \* ---- _parse_powermetrics: one call
    pm_text,        \* stdout: the text parsed, a sequence of lines
    pm_out,         \* the tuple returned
    pm_pc,
    \* ---- cli.py, metrics.py: one run of the collect command
    cli_args,       \* the flags: --json, --full, --watch
    cli_out,        \* how cmd_collect ended: None while running, an exit code, or
                    \* an exception that left it
    snap_phase,     \* which collection is under way: the first one, one of the
                    \* watch loop, or that of metrics.main
    snap_pc,        \* position inside collect / collect_full / cmd_collect
    snap,           \* m: the MacMetrics being filled
    snap_ext,       \* locals of _run_external_temp_fan_tools: tool index, temps, fans
    snap_iter,      \* history variable: collections started by the watch loop
    snap_log,       \* history variable: the tools and collectors run by the
                    \* collection under way
    snap_found,     \* history variable: what the primary sensor tool's text gave
    snap_extra,     \* history variable: what the external tools returned
    \* ---- config.py: the settings of one process
    environ,        \* os.environ: the MSM_* variables, None when unset
    _config_overrides,
    cfg_pc,         \* "import" until the module body has run, then "ready"
    cfg_file,       \* history variable: the mapping the last file loaded held
    cfg_loads,      \* history variable: files loaded so far
    \* ---- alerts.py: threads inside AlertEngine.evaluate
    workers,        \* thread -> position in evaluate and its locals
    \* ---- persistence.py: one HistoryPersistence and the file it writes
    hp_conf,        \* max_points and save_interval_sec given to the constructor
    hp_buffer,      \* self._buffer
    hp_last_save,   \* self._last_save
    hp_file,        \* the file at self.path: None when missing, else what it holds
    hp_clock,       \* time.time()
    hp_call         \* history variable: the last operation, what it returned, and
                    \* the buffer and last-save time before it

alertVars   == <<rules, events, last_fire, clock, fired, call, cooled>>
thermalVars == <<tp_in, tp_arg, tp_ret, tp_pc>>
mergeVars   == <<mg_data, mg_target, mg_out, mg_pc>>
cacheVars   ==
    <<cache, ttl, wall, cpc, cnow, csampler, craw, cret, runs, goodrun, lastcall,
      thiscall>>
collectorVars == <<host, col_pc, col_call, col_loc, col_seen, col_raw, col_out>>
parseVars   == <<pm_text, pm_out, pm_pc>>
snapshotVars ==
    <<cli_args, cli_out, snap_phase, snap_pc, snap, snap_ext, snap_iter, snap_log,
      snap_found, snap_extra>>
configVars ==
    <<environ, _config_overrides, cfg_pc, cfg_file, cfg_loads>>
workerVars ==
    <<workers>>
historyVars ==
    <<hp_conf, hp_buffer, hp_last_save, hp_file, hp_clock, hp_call>>
vars ==
    <<alertVars, thermalVars, mergeVars, cacheVars, collectorVars, parseVars,
      snapshotVars, configVars, workerVars, historyVars>>

\* Every variable but those of one part of the program.
exceptAlertVars ==
    <<thermalVars, mergeVars, cacheVars, collectorVars, parseVars,
      snapshotVars, configVars, workerVars, historyVars>>
exceptThermalVars ==
    <<alertVars, mergeVars, cacheVars, collectorVars, parseVars,
      snapshotVars, configVars, workerVars, historyVars>>
exceptMergeVars ==
    <<alertVars, thermalVars, cacheVars, collectorVars, parseVars,
      snapshotVars, configVars, workerVars, historyVars>>
exceptCacheVars ==
    <<alertVars, thermalVars, mergeVars, collectorVars, parseVars,
      snapshotVars, configVars, workerVars, historyVars>>
exceptCollectorVars ==
    <<alertVars, thermalVars, mergeVars, cacheVars, parseVars, snapshotVars,
      configVars, workerVars, historyVars>>
exceptParseVars ==
    <<alertVars, thermalVars, mergeVars, cacheVars, collectorVars,
      snapshotVars, configVars, workerVars, historyVars>>
exceptSnapshotVars ==
    <<alertVars, thermalVars, mergeVars, cacheVars, collectorVars, parseVars,
      configVars, workerVars, historyVars>>
exceptConfigVars ==
    <<alertVars, thermalVars, mergeVars, cacheVars, collectorVars, parseVars,
      snapshotVars, workerVars, historyVars>>
exceptWorkerVars ==
    <<alertVars, thermalVars, mergeVars, cacheVars, collectorVars, parseVars,
      snapshotVars, configVars, historyVars>>
exceptHistoryVars ==
    <<alertVars, thermalVars, mergeVars, cacheVars, collectorVars, parseVars,
      snapshotVars, configVars, workerVars>>

(***************************************************************************)
(* Python values                                                           *)
(***************************************************************************)
None     == [t |-> "none"]
Num(n)   == [t |-> "num", n |-> n]
Str(s)   == [t |-> "str", s |-> s]

\* A message string.
Text(s) == [t |-> "text", s |-> s]

\* A [\d.]+ token that float() rejects, such as 1.2.3
Bad == [t |-> "bad"]

IsNone(v) == v.t = "none"
IsStr(v)  == v.t = "str"
IsNum(v)  == v.t = "num"

\* bool(v) for the values used here: None, "" and 0 are falsy.
Truthy(v) ==
    CASE v.t = "none" -> FALSE
      [] v.t = "str"  -> Len(v.s) > 0
      [] v.t = "num"  -> v.n # 0
      [] OTHER        -> TRUE

\* str.lower() on one character code: A-Z map to a-z, everything else is kept.
LowerChar(c) == IF c \in 65..90 THEN c + 32 ELSE c
UpperChar(c) == IF c \in 97..122 THEN c - 32 ELSE c

\* str.lower()
Lower(s) == [i \in 1..Len(s) |-> LowerChar(s[i])]

\* The characters str.strip() removes (ASCII whitespace and separators).
IsSpace(c) == c \in (9..13) \cup (28..32)

RECURSIVE LStrip(_)
LStrip(s) == IF s # <<>> /\ IsSpace(Head(s)) THEN LStrip(Tail(s)) ELSE s

RECURSIVE RStrip(_)
RStrip(s) ==
    IF s # <<>> /\ IsSpace(s[Len(s)]) THEN RStrip(SubSeq(s, 1, Len(s) - 1)) ELSE s

\* str.strip()
Strip(s) == RStrip(LStrip(s))

(***************************************************************************)
(* utils.py: thermal pressure                                              *)
(***************************************************************************)
W_Nominal  == <<78, 111, 109, 105, 110, 97, 108>>
W_Moderate == <<77, 111, 100, 101, 114, 97, 116, 101>>
W_Serious  == <<83, 101, 114, 105, 111, 117, 115>>
W_Heavy    == <<72, 101, 97, 118, 121>>
W_Critical == <<67, 114, 105, 116, 105, 99, 97, 108>>

THERMAL_PRESSURE_ORDER == <<W_Nominal, W_Moderate, W_Serious, W_Heavy, W_Critical>>

\* enumerate(order) searched for the first name with name.lower() = key:
\* the 0-based index, or -1 when the loop ends without a match.
RECURSIVE IndexFrom(_, _, _)
IndexFrom(order, key, i) ==
    IF i > Len(order) THEN -1
    ELSE IF Lower(order[i]) = key THEN i - 1
    ELSE IndexFrom(order, key, i + 1)

\* Mutation: the comparison without lower() on the argument.
thermal_pressure_level_cased(level) ==
    IF ~Truthy(level) THEN -1
    ELSE IndexFrom(THERMAL_PRESSURE_ORDER, Strip(level.s), 1)

\* Mutation: the comparison without strip() on the argument.
thermal_pressure_level_unstripped(level) ==
    IF ~Truthy(level) THEN -1
    ELSE IndexFrom(THERMAL_PRESSURE_ORDER, Lower(level.s), 1)

thermal_pressure_level(level) ==
    IF ~Truthy(level) THEN -1
    ELSE IndexFrom(THERMAL_PRESSURE_ORDER, Lower(Strip(level.s)), 1)

\* ---- the arguments tried: a word, the casing of each letter, the padding
MaxPad == 1

W_bogus  == <<98, 111, 103, 117, 115>>
W_Nomina == <<78, 111, 109, 105, 110, 97>>
W_Heavyy == <<72, 101, 97, 118, 121, 121>>
W_Hea_vy == <<72, 101, 97, 32, 118, 121>>

\* 1..5 are the vocabulary in order; the others are outside it.
ThermalWords ==
    THERMAL_PRESSURE_ORDER \o <<W_bogus, <<>>, W_Nomina, W_Heavyy, W_Hea_vy>>

\* Paddings of up to MaxPad whitespace characters: space, tab, newline, ...
PadChars == <<32, 9, 10>>
Pad(n) == [i \in 1..n |-> PadChars[((i - 1) % Len(PadChars)) + 1]]
Pads == {Pad(n) : n \in 0..MaxPad}

SwapChar(c) == IF c \in 65..90 THEN LowerChar(c) ELSE UpperChar(c)

\* The word with the case of the letters at the positions in flip swapped.
Recase(w, flip) == [i \in 1..Len(w) |-> IF i \in flip THEN SwapChar(w[i]) ELSE w[i]]

ThermalInputs ==
    {[word |-> 0, flip |-> {}, padL |-> <<>>, padR |-> <<>>]} \cup
    UNION {{[word |-> k, flip |-> f, padL |-> l, padR |-> r] :
               f \in SUBSET (1..Len(ThermalWords[k])), l \in Pads, r \in Pads} :
           k \in 1..Len(ThermalWords)}

\* The Python value an input stands for; word 0 is None.
Render(in) ==
    IF in.word = 0 THEN None
    ELSE Str(in.padL \o Recase(ThermalWords[in.word], in.flip) \o in.padR)

ThermalInit ==
    /\ tp_in \in ThermalInputs
    /\ tp_arg = Render(tp_in)
    /\ tp_ret = -1
    /\ tp_pc = "call"

ThermalIdle ==
    /\ tp_in = [word |-> 0, flip |-> {}, padL |-> <<>>, padR |-> <<>>]
    /\ tp_arg = None
    /\ tp_ret = -1
    /\ tp_pc = "idle"

\* level = thermal_pressure_level(arg)
ThermalCall ==
    /\ tp_pc = "call"
    /\ tp_ret' = thermal_pressure_level(tp_arg)
    /\ tp_pc' = "done"
    /\ UNCHANGED <<tp_in, tp_arg>>


(***************************************************************************)
(* alerts.py: metric resolution and rule comparison                        *)
(***************************************************************************)
\* dict.get(key) on a mapping held as a function over its keys
Get(d, k, default) == IF k \in DOMAIN d THEN d[k] ELSE default

\* d[k] = v
Put(d, k, v) == [x \in (DOMAIN d) \cup {k} |-> IF x = k THEN v ELSE d[x]]

EmptyMap == [x \in {} |-> None]

IsDigits(s) == Len(s) > 0 /\ \A i \in 1..Len(s) : s[i] \in 48..57

RECURSIVE DigitsValue(_)
DigitsValue(s) ==
    IF s = <<>> THEN 0
    ELSE 10 * DigitsValue(SubSeq(s, 1, Len(s) - 1)) + (s[Len(s)] - 48)

\* float(val) inside try/except (TypeError, ValueError): a number is itself, a
\* string of decimal digits (surrounding whitespace allowed) is its value, any
\* other string and any mapping is None.
ToFloat(val) ==
    CASE val.t = "num" -> val
      [] val.t = "str" ->
            IF IsDigits(Strip(val.s)) THEN Num(DigitsValue(Strip(val.s))) ELSE None
      [] OTHER -> None

\* The local order tuple of _get_metric_value.
ALERT_THERMAL_ORDER == <<W_Nominal, W_Moderate, W_Serious, W_Heavy, W_Critical>>

\* Mutation: a level outside the vocabulary resolves to -1, as it does in
\* utils.thermal_pressure_level.
_get_metric_value_unknown(metrics, key) ==
    IF key = "thermal_pressure"
    THEN LET level == Get(metrics, "thermal_pressure", None) IN
         IF IsNone(level) \/ ~IsStr(level) THEN None
         ELSE Num(IndexFrom(ALERT_THERMAL_ORDER, Lower(Strip(level.s)), 1))
    ELSE LET val == Get(metrics, key, None) IN
         IF IsNone(val) THEN None ELSE ToFloat(val)

\* _get_metric_value(metrics, key): the ordinal of the level for
\* thermal_pressure, float(metrics.get(key)) for any other key, None when
\* there is no such number.
_get_metric_value(metrics, key) ==
    IF key = "thermal_pressure"
    THEN LET level == Get(metrics, "thermal_pressure", None) IN
         IF IsNone(level) \/ ~IsStr(level) THEN None
         ELSE LET i == IndexFrom(ALERT_THERMAL_ORDER, Lower(Strip(level.s)), 1) IN
              IF i >= 0 THEN Num(i) ELSE None
    ELSE LET val == Get(metrics, key, None) IN
         IF IsNone(val) THEN None ELSE ToFloat(val)

_eval_rule(rule, value) ==
    CASE rule.operator = "gt"  -> value > rule.value
      [] rule.operator = "gte" -> value >= rule.value
      [] rule.operator = "lt"  -> value < rule.value
      [] rule.operator = "lte" -> value <= rule.value
      [] rule.operator = "eq"  -> value = rule.value
      [] OTHER -> FALSE

(***************************************************************************)
(* alerts.py: AlertEngine                                                  *)
(***************************************************************************)
_max_events == 500

\* any(r.id == rule.id for r in self.rules)
HasId(rs, id) == \E i \in 1..Len(rs) : rs[i].id = id

\* Mutation: the rule is appended whatever its id.
add_rule_always(rs, rule) == Append(rs, rule)

\* Mutation: a rule with a known id replaces the one in the list.
add_rule_replace(rs, rule) ==
    IF HasId(rs, rule.id)
    THEN [i \in 1..Len(rs) |-> IF rs[i].id = rule.id THEN rule ELSE rs[i]]
    ELSE Append(rs, rule)

\* self.rules after add_rule(rule)
add_rule(rs, rule) == IF ~HasId(rs, rule.id) THEN Append(rs, rule) ELSE rs

RECURSIVE Without(_, _)
Without(rs, id) ==
    IF rs = <<>> THEN <<>>
    ELSE IF Head(rs).id # id THEN <<Head(rs)>> \o Without(Tail(rs), id)
    ELSE Without(Tail(rs), id)

\* Mutation: only the first rule of the list is examined.
remove_rule_first(rs, id) ==
    LET after == IF rs # <<>> /\ Head(rs).id = id THEN Tail(rs) ELSE rs
    IN  [rules |-> after, ret |-> Len(after) < Len(rs)]

\* Mutation: the kept rules are collected in reverse.
RECURSIVE WithoutRev(_, _)
WithoutRev(rs, id) ==
    IF rs = <<>> THEN <<>>
    ELSE IF Head(rs).id # id THEN WithoutRev(Tail(rs), id) \o <<Head(rs)>>
    ELSE WithoutRev(Tail(rs), id)

remove_rule_reversed(rs, id) ==
    LET after == WithoutRev(rs, id)
    IN  [rules |-> after, ret |-> Len(after) < Len(rs)]

\* self.rules after remove_rule(rule_id), and the value returned
remove_rule(rs, id) ==
    LET before == Len(rs)
        after  == Without(rs, id)
    IN  [rules |-> after, ret |-> Len(after) < before]

\* Mutation: disabled rules are evaluated too.
rule_enabled_ignored(rule) == TRUE

\* if not rule.enabled: continue
rule_enabled(rule) == rule.enabled

\* Mutation: the boundary of the cooldown window is inside it.
in_cooldown_inclusive(lf, rule, now) == now - Get(lf, rule.id, 0) <= rule.cooldown_sec

\* Mutation: no cooldown at all.
in_cooldown_never(lf, rule, now) == FALSE

\* last = self._last_fire.get(rule.id, 0); now - last < rule.cooldown_sec
in_cooldown(lf, rule, now) == now - Get(lf, rule.id, 0) < rule.cooldown_sec

\* Mutation: the newest event is dropped instead of the oldest.
RECURSIVE trim_events_newest(_)
trim_events_newest(ev) ==
    IF Len(ev) > _max_events THEN trim_events_newest(SubSeq(ev, 1, Len(ev) - 1)) ELSE ev

\* Mutation: the history is trimmed one event late.
RECURSIVE trim_events_late(_)
trim_events_late(ev) ==
    IF Len(ev) > _max_events + 1 THEN trim_events_late(Tail(ev)) ELSE ev

\* while len(self.events) > self._max_events: self.events.pop(0)
RECURSIVE trim_events(_)
trim_events(ev) == IF Len(ev) > _max_events THEN trim_events(Tail(ev)) ELSE ev

AlertEvent(rule, val, now) ==
    [rule_id   |-> rule.id,
     rule_name |-> rule.name,
     metric    |-> rule.metric,
     value     |-> val,
     threshold |-> rule.value,
     severity  |-> rule.severity,
     message   |-> <<rule.metric, val, rule.operator, rule.value>>,
     timestamp |-> now]

\* One pass of the loop body of evaluate for one rule.  st holds self.events,
\* self._last_fire and the local new_events.
EvaluateRule(rule, metrics, now, st) ==
    IF ~rule_enabled(rule) THEN st
    ELSE LET val == _get_metric_value(metrics, rule.metric) IN
         IF IsNone(val) THEN st
         ELSE IF ~_eval_rule(rule, val.n) THEN st
         ELSE IF in_cooldown(st.last_fire, rule, now) THEN st
         ELSE LET event == AlertEvent(rule, val.n, now) IN
              [events     |-> trim_events(Append(st.events, event)),
               last_fire  |-> Put(st.last_fire, rule.id, now),
               new_events |-> Append(st.new_events, event)]

\* Mutation: a rule whose metric does not resolve ends the loop.
RECURSIVE EvaluateLoop_break(_, _, _, _)
EvaluateLoop_break(rs, metrics, now, st) ==
    IF rs = <<>> THEN st
    ELSE IF Head(rs).enabled /\ IsNone(_get_metric_value(metrics, Head(rs).metric))
    THEN st
    ELSE EvaluateLoop_break(Tail(rs), metrics, now,
                            EvaluateRule(Head(rs), metrics, now, st))

\* for rule in self.rules: ...
RECURSIVE EvaluateLoop(_, _, _, _)
EvaluateLoop(rs, metrics, now, st) ==
    IF rs = <<>> THEN st
    ELSE EvaluateLoop(Tail(rs), metrics, now, EvaluateRule(Head(rs), metrics, now, st))

\* Mutation: the cooldown map is kept.
clear_events_keep_cooldown(ev, lf) == [events |-> <<>>, last_fire |-> lf]

\* self.events.clear(); self._last_fire.clear()
clear_events(ev, lf) == [events |-> <<>>, last_fire |-> EmptyMap]


\* Mutation: the slice keeps the oldest events.
get_events_oldest(ev, limit) ==
    LET n == Len(ev)
        k == IF limit > n THEN n ELSE limit
    IN  [i \in 1..k |-> ev[k + 1 - i]]

\* list(reversed(self.events[-limit:])): the slice starts at index -limit, which
\* is the start of the list for limit = 0 and for limit >= len.
get_events(ev, limit) ==
    LET n     == Len(ev)
        start == IF limit = 0 THEN 0
                 ELSE IF limit > 0 THEN (IF limit >= n THEN 0 ELSE n - limit)
                 ELSE (IF -limit >= n THEN n ELSE -limit)
        slice == SubSeq(ev, start + 1, n)
    IN  [i \in 1..Len(slice) |-> slice[Len(slice) + 1 - i]]

\* ---- the engine's inputs
StartTime == 10      \* the clock at construction
MaxTicks  == 2       \* seconds the clock advances
MaxFired  == 2       \* events recorded between two clear_events
MaxRules  == 3       \* rules held by the engine

Rule(id, name, operator, value, severity, enabled, cooldown) ==
    [id |-> id, name |-> name, metric |-> "cpu_percent", operator |-> operator,
     value |-> value, severity |-> severity, enabled |-> enabled,
     cooldown_sec |-> cooldown]

\* The rules offered to add_rule: the rule of the end-to-end example with its
\* cooldown scaled to 2 s, a second rule with its id, a disabled rule, and a
\* third id.
Catalog ==
    {Rule("r1", "High CPU",  "gte", 90, "critical", TRUE,  2),
     Rule("r1", "Low CPU",   "lt",  99, "info",     TRUE,  0),
     Rule("r2", "CPU below", "lte", 99, "warning",  FALSE, 1),
     Rule("r3", "CPU is 95", "eq",  95, "warning",  TRUE,  1)}

RuleIds == {r.id : r \in Catalog}

\* The snapshots offered to evaluate.
Snapshots ==
    {[k \in {"cpu_percent"} |-> Num(v)] : v \in {95, 99}} \cup {EmptyMap}

Range(f) == {f[i] : i \in DOMAIN f}

\* Whether an event of rule id is on record, and the time of the last one.
HasFired(log, id) == \E i \in 1..Len(log) : log[i].rule_id = id

LastFiredAt(log, id) ==
    LET i == CHOOSE k \in 1..Len(log) :
                 /\ log[k].rule_id = id
                 /\ \A j \in (k + 1)..Len(log) : log[j].rule_id # id
    IN  log[i].timestamp

\* The rules whose last recorded event is less than their cooldown old, each
\* with the time its cooldown window ends.
InsideCooldown ==
    {[id |-> q.id, until |-> LastFiredAt(fired, q.id) + q.cooldown_sec] :
        q \in {r \in Range(rules) :
                  /\ HasFired(fired, r.id)
                  /\ clock < LastFiredAt(fired, r.id) + r.cooldown_sec}}

AlertInit ==
    /\ rules = <<>>
    /\ events = <<>>
    /\ last_fire = EmptyMap
    /\ clock = StartTime
    /\ fired = <<>>
    /\ call = [op |-> "init"]
    /\ cooled = {}

AlertIdle == AlertInit

\* engine.add_rule(rule)
AddRule(rule) ==
    /\ rules' = add_rule(rules, rule)
    /\ call' = [op |-> "add_rule", rule |-> rule]
    /\ UNCHANGED <<events, last_fire, clock, fired, cooled>>

\* engine.remove_rule(rule_id)
RemoveRule(id) ==
    LET r == remove_rule(rules, id) IN
    /\ rules' = r.rules
    /\ call' = [op |-> "remove_rule", id |-> id, ret |-> r.ret]
    /\ cooled' = {c \in cooled : c.id # id}
    /\ UNCHANGED <<events, last_fire, clock, fired>>

\* engine.evaluate(metrics)
Evaluate(metrics) ==
    LET now == clock
        st  == EvaluateLoop(rules, metrics, now,
                   [events |-> events, last_fire |-> last_fire, new_events |-> <<>>])
    IN  /\ events' = st.events
        /\ last_fire' = st.last_fire
        /\ fired' = fired \o st.new_events
        /\ call' = [op |-> "evaluate", metrics |-> metrics, now |-> now,
                    ret |-> st.new_events, cooled |-> cooled]
        /\ cooled' = {}
        /\ UNCHANGED <<rules, clock>>

\* engine.clear_events()
ClearEvents ==
    LET c == clear_events(events, last_fire) IN
    /\ events' = c.events
    /\ last_fire' = c.last_fire
    /\ fired' = <<>>
    /\ call' = [op |-> "clear_events"]
    /\ cooled' = InsideCooldown
    /\ UNCHANGED <<rules, clock>>

\* engine.get_events(limit)
GetEvents(limit) ==
    /\ call' = [op |-> "get_events", limit |-> limit, ret |-> get_events(events, limit)]
    /\ UNCHANGED <<rules, events, last_fire, clock, fired, cooled>>

\* One second passes.
Tick ==
    /\ clock' = clock + 1
    /\ call' = [op |-> "tick"]
    /\ UNCHANGED <<rules, events, last_fire, fired, cooled>>


(***************************************************************************)
(* persistence.py: HistoryPersistence                                      *)
(***************************************************************************)
\* A history point: the snapshot dict of one poll, of which the model keeps an
\* identifying number and one reading.
Point(id, cpu_percent) == [id |-> id, cpu_percent |-> cpu_percent]

\* json.dump of a point writes its items as text; json.load rebuilds the dict.
JsonDump(point) == [json |-> <<point.id, point.cpu_percent>>]
JsonLoad(text)  == [id |-> text.json[1], cpu_percent |-> text.json[2]]

\* What the file at self.path can hold: {"history": [...]}, JSON whose
\* "history" is not a list, or bytes that are not JSON (a write that broke off).
HistoryFile(buffer) ==
    [t |-> "file", kind |-> "history", history |-> [i \in 1..Len(buffer) |-> JsonDump(buffer[i])]]
NoListFile  == [t |-> "file", kind |-> "nolist", history |-> <<>>]
GarbageFile == [t |-> "file", kind |-> "garbage", history |-> <<>>]

\* Mutation: the newest points are dropped instead of the oldest.
RECURSIVE TrimBuffer_newest(_, _)
TrimBuffer_newest(buffer, max_points) ==
    IF Len(buffer) > max_points
    THEN TrimBuffer_newest(SubSeq(buffer, 1, Len(buffer) - 1), max_points)
    ELSE buffer

\* while len(self._buffer) > self.max_points: self._buffer.pop(0)
RECURSIVE TrimBuffer(_, _)
TrimBuffer(buffer, max_points) ==
    IF Len(buffer) > max_points THEN TrimBuffer(Tail(buffer), max_points) ELSE buffer

\* hist[-self.max_points:]: the slice starts at index -max_points, which is the
\* start of the list for max_points = 0 and for max_points >= len.
LastSlice(hist, max_points) ==
    LET n == Len(hist)
        start == IF max_points = 0 \/ max_points >= n THEN 0 ELSE n - max_points
    IN  SubSeq(hist, start + 1, n)

\* What a write of the file can do: succeed; fail before the file is opened
\* (mkdir or open raises); fail after open(path, "w") has emptied the file
\* (json.dump or the write raises).
WriteOutcomes == {"ok", "open_error", "dump_error"}

\* Mutation: the save time is taken whether or not the write succeeded.
_save_unsafe_stamped(buffer, last_save, file, now, w) ==
    [file |-> IF w = "ok" THEN HistoryFile(buffer)
              ELSE IF w = "dump_error" THEN GarbageFile ELSE file,
     last_save |-> now, wrote |-> w]

\* _save_unsafe(): the body of the try block, and the except clause that logs
\* and swallows whatever it raised.
_save_unsafe(buffer, last_save, file, now, w) ==
    IF w = "ok"
    THEN [file |-> HistoryFile(buffer), last_save |-> now, wrote |-> w]
    ELSE [file |-> IF w = "dump_error" THEN GarbageFile ELSE file,
          last_save |-> last_save, wrote |-> w]

\* ---- the collaborator's inputs
MaxPoints  == 2      \* the largest max_points
MaxAppends == 3      \* points appended

\* The history a previous run left in the file.
StoredHistory == <<Point(1, 95), Point(2, 99), Point(3, 95)>>

HistoryConfs == [max_points : 0..MaxPoints, save_interval_sec : {0, 2}]

NoHpCall ==
    [op |-> "init", ret |-> <<>>, wrote |-> "none", now |-> 0, before |-> <<>>,
     was_saved |-> 0, log |-> <<>>]

\* HistoryPersistence(path, max_points, save_interval_sec)
HistoryInit ==
    /\ hp_conf \in HistoryConfs
    /\ hp_buffer = <<>>
    /\ hp_last_save = 0
    /\ hp_file \in {None, NoListFile, HistoryFile(StoredHistory)}
    /\ hp_clock = StartTime
    /\ hp_call = NoHpCall

HistoryIdle ==
    /\ hp_conf = [max_points |-> MaxPoints, save_interval_sec |-> 2]
    /\ hp_buffer = <<>>
    /\ hp_last_save = 0
    /\ hp_file = None
    /\ hp_clock = StartTime
    /\ hp_call = NoHpCall

HpCall(op, ret, wrote, log) ==
    [op |-> op, ret |-> ret, wrote |-> wrote, now |-> hp_clock, before |-> hp_buffer,
     was_saved |-> hp_last_save, log |-> log]

\* persistence.append(point); the write, when one is made, does w.
HpAppend(w) ==
    LET point  == Point(11 + Len(hp_call.log), 95)
        buffer == TrimBuffer(Append(hp_buffer, point), hp_conf.max_points)
        due    == hp_clock - hp_last_save >= hp_conf.save_interval_sec
        sv     == _save_unsafe(buffer, hp_last_save, hp_file, hp_clock, w)
    IN  /\ hp_buffer' = buffer
        /\ hp_file' = IF due THEN sv.file ELSE hp_file
        /\ hp_last_save' = IF due THEN sv.last_save ELSE hp_last_save
        /\ hp_call' = HpCall("append", <<>>, IF due THEN sv.wrote ELSE "none",
                              Append(hp_call.log, point))
        /\ UNCHANGED <<hp_conf, hp_clock>>

\* persistence.save(); the write does w.
HpSave(w) ==
    LET sv == _save_unsafe(hp_buffer, hp_last_save, hp_file, hp_clock, w) IN
    /\ hp_file' = sv.file
    /\ hp_last_save' = sv.last_save
    /\ hp_call' = HpCall("save", <<>>, sv.wrote, hp_call.log)
    /\ UNCHANGED <<hp_conf, hp_buffer, hp_clock>>

\* persistence.load()
HpLoad ==
    IF ~IsNone(hp_file) /\ hp_file.kind = "history"
    THEN LET hist == [i \in 1..Len(hp_file.history) |-> JsonLoad(hp_file.history[i])] IN
         /\ hp_buffer' = LastSlice(hist, hp_conf.max_points)
         /\ hp_call' = HpCall("load", hp_buffer', "none", hp_call.log)
         /\ UNCHANGED <<hp_conf, hp_last_save, hp_file, hp_clock>>
    ELSE /\ hp_call' = HpCall("load", <<>>, "none", hp_call.log)
         /\ UNCHANGED <<hp_conf, hp_buffer, hp_last_save, hp_file, hp_clock>>

\* persistence.clear(); the write does w.
HpClear(w) ==
    LET sv == _save_unsafe(<<>>, hp_last_save, hp_file, hp_clock, w) IN
    /\ hp_buffer' = <<>>
    /\ hp_file' = sv.file
    /\ hp_last_save' = sv.last_save
    /\ hp_call' = HpCall("clear", <<>>, sv.wrote, hp_call.log)
    /\ UNCHANGED <<hp_conf, hp_clock>>

\* One second passes.
HpTick ==
    /\ hp_clock' = hp_clock + 1
    /\ UNCHANGED <<hp_conf, hp_buffer, hp_last_save, hp_file, hp_call>>

(***************************************************************************)
(* alerts.py: AlertEngine.evaluate entered by several threads. The engine  *)
(* holds no lock, so a thread can be suspended between any two statements  *)
(* of evaluate; each action below is one run of statements between two     *)
(* points where the shared rules, events or _last_fire are touched.        *)
(***************************************************************************)
Workers == {1, 2}

IdleWorker == [pc |-> "idle", now |-> 0, i |-> 0, metrics |-> EmptyMap, new_events |-> <<>>]

WorkerIdle == workers = [w \in Workers |-> IdleWorker]

AllIdle == \A w \in Workers : workers[w].pc = "idle"

\* The rules of the threaded engine: the rule of the end-to-end example with
\* its cooldown scaled to 2 s, and a second rule.
ThreadCatalog ==
    {Rule("r1", "High CPU",  "gte", 90, "critical", TRUE, 2),
     Rule("r3", "CPU is 95", "eq",  95, "warning",  TRUE, 1)}

\* The snapshots the threads evaluate: one that satisfies both rules, one
\* that resolves no metric.
ThreadSnapshots == {[k \in {"cpu_percent"} |-> Num(95)], EmptyMap}

\* now = time.time(); new_events = []; the loop over self.rules starts
ThreadEnter(w, metrics) ==
    /\ workers[w].pc = "idle"
    /\ workers' = [workers EXCEPT ![w] =
            [pc |-> "rule", now |-> clock, i |-> 1, metrics |-> metrics,
             new_events |-> <<>>]]
    /\ UNCHANGED alertVars

\* One pass of the loop up to the cooldown test: the four `continue`s, or on
\* to the assignment of _last_fire.
ThreadRule(w) ==
    LET L    == workers[w]
        rule == rules[L.i]
        val  == _get_metric_value(L.metrics, rule.metric)
        due  == /\ rule_enabled(rule)
                /\ ~IsNone(val)
                /\ _eval_rule(rule, val.n)
                /\ ~in_cooldown(last_fire, rule, L.now)
    IN  /\ L.pc = "rule"
        /\ L.i <= Len(rules)
        /\ workers' = [workers EXCEPT ![w] =
                IF due THEN [L EXCEPT !.pc = "stamp"] ELSE [L EXCEPT !.i = L.i + 1]]
        /\ UNCHANGED alertVars

\* self._last_fire[rule.id] = now
ThreadStamp(w) ==
    LET L == workers[w] IN
    /\ L.pc = "stamp"
    /\ last_fire' = Put(last_fire, rules[L.i].id, L.now)
    /\ workers' = [workers EXCEPT ![w] = [L EXCEPT !.pc = "append"]]
    /\ UNCHANGED <<rules, events, clock, fired, call, cooled>>

\* event = AlertEvent(...); self.events.append(event); new_events.append(event)
ThreadAppend(w) ==
    LET L     == workers[w]
        rule  == rules[L.i]
        event == AlertEvent(rule, _get_metric_value(L.metrics, rule.metric).n, L.now)
    IN  /\ L.pc = "append"
        /\ events' = Append(events, event)
        /\ fired' = Append(fired, event)
        /\ workers' = [workers EXCEPT ![w] =
                [L EXCEPT !.pc = "trim", !.new_events = Append(L.new_events, event)]]
        /\ UNCHANGED <<rules, last_fire, clock, call, cooled>>

\* while len(self.events) > self._max_events: self.events.pop(0)
\* one test of the condition, and the pop when it holds
ThreadTrim(w) ==
    LET L == workers[w] IN
    /\ L.pc = "trim"
    /\ IF Len(events) > _max_events
       THEN /\ events' = Tail(events)
            /\ UNCHANGED workers
       ELSE /\ events' = events
            /\ workers' = [workers EXCEPT ![w] = [L EXCEPT !.pc = "rule", !.i = L.i + 1]]
    /\ UNCHANGED <<rules, last_fire, clock, fired, call, cooled>>

\* return new_events
ThreadReturn(w) ==
    LET L == workers[w] IN
    /\ L.pc = "rule"
    /\ L.i > Len(rules)
    /\ call' = [op |-> "evaluate", metrics |-> L.metrics, now |-> L.now,
                ret |-> L.new_events, cooled |-> cooled]
    /\ cooled' = {}
    /\ workers' = [workers EXCEPT ![w] = IdleWorker]
    /\ UNCHANGED <<rules, events, last_fire, clock, fired>>

(***************************************************************************)
(* collectors/base.py: CollectorResult.merge_into                          *)
(***************************************************************************)
Map(m)   == [t |-> "map", m |-> m]
IsMap(v) == v.t = "map"

\* All mappings from a subset of keys to values.
MapsOver(keys, values) == UNION {[d -> values] : d \in SUBSET keys}

\* Mutation: every key of data replaces the target's value wholesale.
merge_into_replace(data, target) ==
    [k \in (DOMAIN target) \cup (DOMAIN data) |->
        IF k \in DOMAIN data THEN data[k] ELSE target[k]]

\* Mutation: on a shared inner key the target's value is kept.
merge_into_keep(data, target) ==
    [k \in (DOMAIN target) \cup (DOMAIN data) |->
        IF k \notin DOMAIN data THEN target[k]
        ELSE IF k \in DOMAIN target /\ IsMap(target[k]) /\ IsMap(data[k])
        THEN Map([kk \in (DOMAIN target[k].m) \cup (DOMAIN data[k].m) |->
                    IF kk \in DOMAIN target[k].m THEN target[k].m[kk]
                    ELSE data[k].m[kk]])
        ELSE data[k]]

\* target after self.merge_into(target), where data is self.data:
\*   for k, v in self.data.items():
\*       if k in target and both target[k] and v are dicts:
\*           for kk, vv in v.items(): target[k][kk] = vv
\*       else: target[k] = v
merge_into(data, target) ==
    [k \in (DOMAIN target) \cup (DOMAIN data) |->
        IF k \notin DOMAIN data THEN target[k]
        ELSE IF k \in DOMAIN target /\ IsMap(target[k]) /\ IsMap(data[k])
        THEN Map([kk \in (DOMAIN target[k].m) \cup (DOMAIN data[k].m) |->
                    IF kk \in DOMAIN data[k].m THEN data[k].m[kk]
                    ELSE target[k].m[kk]])
        ELSE data[k]]

\* ---- the mappings merged: top-level keys a, b; a value is a number or a
\* mapping of the inner keys x, y to numbers.
TopKeys   == {"a", "b"}
InnerKeys == {"x", "y"}
Scalars   == {Num(1), Num(10), Num(20)}
MergeValues == Scalars \cup {Map(m) : m \in MapsOver(InnerKeys, Scalars)}
MergeDicts  == MapsOver(TopKeys, MergeValues)

MergeInit ==
    /\ mg_data \in MergeDicts
    /\ mg_target \in MergeDicts
    /\ mg_out = EmptyMap
    /\ mg_pc = "call"

\* ---- mappings nested two levels down: the one top-level key a holds a
\* number or a mapping of x, and x holds a number or a mapping of p, q.
DeepLeaves == {Num(1), Num(10)}
DeepValues ==
    DeepLeaves \cup
    {Map(m) : m \in MapsOver({"x"},
                 DeepLeaves \cup {Map(n) : n \in MapsOver({"p", "q"}, DeepLeaves)})}
DeepDicts == MapsOver({"a"}, DeepValues)

DeepMergeInit ==
    /\ mg_data \in DeepDicts
    /\ mg_target \in DeepDicts
    /\ mg_out = EmptyMap
    /\ mg_pc = "call"

MergeIdle ==
    /\ mg_data = EmptyMap
    /\ mg_target = EmptyMap
    /\ mg_out = EmptyMap
    /\ mg_pc = "idle"

\* CollectorResult(data=mg_data).merge_into(target)
MergeCall ==
    /\ mg_pc = "call"
    /\ mg_out' = merge_into(mg_data, mg_target)
    /\ mg_pc' = "done"
    /\ UNCHANGED <<mg_data, mg_target>>

(***************************************************************************)
(* collectors/powermetrics_collector.py (and the same code in metrics.py): *)
(* the sampling cache in front of the powermetrics tool                    *)
(***************************************************************************)
_CACHE_TTL == 2

\* The sampler configurations tried in order.
SAMPLERS == <<"thermal,cpu_power,gpu_power,ane_power", "thermal,cpu_power,gpu_power", "smc">>

\* What one subprocess.run of the tool can do: exit with a return code and
\* some standard output, or raise one of the three exceptions that are caught.
ToolTexts == {<<65>>, <<66, 10>>, <<32, 10>>, <<>>}

ToolOutcomes ==
    [kind : {"exit"}, returncode : {0, 1}, stdout : ToolTexts] \cup
    {[kind |-> k] : k \in {"TimeoutExpired", "FileNotFoundError", "PermissionError"}}

\* out.returncode == 0 and (out.stdout or "").strip()
SamplerSucceeded(o) == o.kind = "exit" /\ o.returncode = 0 /\ Strip(o.stdout) # <<>>

\* Mutation: blank output counts as output.
SamplerStep_accept_blank(i, o) ==
    IF o.kind = "exit" /\ o.returncode = 0 /\ o.stdout # <<>>
    THEN [done |-> TRUE, raw |-> o.stdout, next |-> i]
    ELSE IF i >= Len(SAMPLERS) THEN [done |-> TRUE, raw |-> <<>>, next |-> i]
    ELSE [done |-> FALSE, raw |-> <<>>, next |-> i + 1]

\* One pass of the loop of _run_powermetrics_impl: the tool run with the i-th
\* configuration did o. The loop returns the output of a successful run, goes
\* on to the next configuration otherwise, and returns "" after the last.
SamplerStep(i, o) ==
    IF SamplerSucceeded(o) THEN [done |-> TRUE, raw |-> o.stdout, next |-> i]
    ELSE IF i >= Len(SAMPLERS) THEN [done |-> TRUE, raw |-> <<>>, next |-> i]
    ELSE [done |-> FALSE, raw |-> <<>>, next |-> i + 1]

CachePair(ts, text) == [t |-> "pair", ts |-> ts, text |-> text]

\* Mutation: an entry exactly ttl old is still served.
cache_hit_inclusive(c, now, cache_ttl) == ~IsNone(c) /\ (now - c.ts) <= cache_ttl

\* _powermetrics_cache is not None and (now - _powermetrics_cache[0]) < cache_ttl
cache_hit(c, now, cache_ttl) == ~IsNone(c) /\ (now - c.ts) < cache_ttl

\* Mutation: whatever the tool returned is cached.
cache_store_always(c, now, raw) == CachePair(now, raw)

\* Mutation: the entry is stamped with the time the tool returned.
cache_store_at_return(c, now, raw) == IF Len(raw) > 0 THEN CachePair(wall, raw) ELSE c

\* if raw: _powermetrics_cache = (now, raw)
cache_store(c, now, raw) == IF Len(raw) > 0 THEN CachePair(now, raw) ELSE c

\* ---- callers, time-to-live values and bounds
Callers == {1, 2}
TTLs    == {0, 1, _CACHE_TTL}
MaxWall == 3         \* seconds the clock advances
MaxRuns == 3         \* runs of the tool

CallRecord(c, ret, invoked) ==
    [t |-> "call", caller |-> c, start |-> cnow[c], end |-> wall, ret |-> ret,
     invoked |-> invoked, runs |-> runs, prior |-> goodrun]

CacheInit ==
    /\ cache = None
    /\ ttl \in TTLs
    /\ wall = 0
    /\ cpc = [c \in Callers |-> "idle"]
    /\ cnow = [c \in Callers |-> 0]
    /\ csampler = [c \in Callers |-> 1]
    /\ craw = [c \in Callers |-> <<>>]
    /\ cret = [c \in Callers |-> <<>>]
    /\ runs = 0
    /\ goodrun = None
    /\ lastcall = None
    /\ thiscall = None

CacheIdle ==
    /\ cache = None
    /\ ttl = _CACHE_TTL
    /\ wall = 0
    /\ cpc = [c \in Callers |-> "idle"]
    /\ cnow = [c \in Callers |-> 0]
    /\ csampler = [c \in Callers |-> 1]
    /\ craw = [c \in Callers |-> <<>>]
    /\ cret = [c \in Callers |-> <<>>]
    /\ runs = 0
    /\ goodrun = None
    /\ lastcall = None
    /\ thiscall = None

\* now = time.time()
CacheEnter(c) ==
    /\ cpc[c] = "idle"
    /\ cnow' = [cnow EXCEPT ![c] = wall]
    /\ cpc' = [cpc EXCEPT ![c] = "check"]
    /\ UNCHANGED <<cache, ttl, wall, csampler, craw, cret, runs, goodrun, lastcall,
                   thiscall>>

\* if _powermetrics_cache is not None and (now - _powermetrics_cache[0]) < cache_ttl:
\* on a miss, raw = _run_powermetrics_impl(timeout_sec) is entered
CacheCheck(c) ==
    /\ cpc[c] = "check"
    /\ IF cache_hit(cache, cnow[c], ttl)
       THEN /\ cpc' = [cpc EXCEPT ![c] = "hit"]
            /\ UNCHANGED <<csampler, runs>>
       ELSE /\ cpc' = [cpc EXCEPT ![c] = "impl"]
            /\ csampler' = [csampler EXCEPT ![c] = 1]
            /\ runs' = runs + 1
    /\ UNCHANGED <<cache, ttl, wall, cnow, craw, cret, goodrun, lastcall, thiscall>>

\* return _powermetrics_cache[1]
CacheReturnHit(c) ==
    /\ cpc[c] = "hit"
    /\ cret' = [cret EXCEPT ![c] = cache.text]
    /\ cpc' = [cpc EXCEPT ![c] = "idle"]
    /\ lastcall' = thiscall
    /\ thiscall' = CallRecord(c, cache.text, FALSE)
    /\ UNCHANGED <<cache, ttl, wall, cnow, csampler, craw, runs, goodrun>>

\* One subprocess.run inside _run_powermetrics_impl, with outcome o.
CacheRunSampler(c, o) ==
    LET step == SamplerStep(csampler[c], o) IN
    /\ cpc[c] = "impl"
    /\ csampler' = [csampler EXCEPT ![c] = step.next]
    /\ craw' = [craw EXCEPT ![c] = step.raw]
    /\ cpc' = [cpc EXCEPT ![c] = IF step.done THEN "store" ELSE "impl"]
    /\ UNCHANGED <<cache, ttl, wall, cnow, cret, runs, goodrun, lastcall, thiscall>>

\* if raw: _powermetrics_cache = (now, raw)
\* return raw
CacheStore(c) ==
    /\ cpc[c] = "store"
    /\ cache' = cache_store(cache, cnow[c], craw[c])
    /\ cret' = [cret EXCEPT ![c] = craw[c]]
    /\ cpc' = [cpc EXCEPT ![c] = "idle"]
    /\ lastcall' = thiscall
    /\ thiscall' = CallRecord(c, craw[c], TRUE)
    /\ goodrun' = IF Len(craw[c]) > 0 THEN CallRecord(c, craw[c], TRUE) ELSE goodrun
    /\ UNCHANGED <<ttl, wall, cnow, csampler, craw, runs>>

\* One second passes.
CacheTick ==
    /\ wall' = wall + 1
    /\ UNCHANGED <<cache, ttl, cpc, cnow, csampler, craw, cret, runs, goodrun, lastcall,
                   thiscall>>

(***************************************************************************)
(* collectors/powermetrics_collector.py (and the same code in metrics.py): *)
(* _parse_powermetrics                                                     *)
(*                                                                         *)
(* The text is a sequence of lines, each of one of the shapes the regular  *)
(* expressions look for:                                                   *)
(*   pressure  "Current pressure level: <word>"                            *)
(*   mW        "<name> Power: <v> mW"                                      *)
(*   W         "<name> power: <v> W"                                       *)
(*   combined  "Combined Power (CPU + GPU + ANE): <v> mW"                  *)
(*   die       "<name> die temperature: <v> C"                             *)
(*   speed     "Fan <label> speed: <v> rpm"    (label -1: "Fan speed: ..") *)
(* <v> is a number, or Bad for a token such as 1.2.3 that float() rejects. *)
(* Power is kept in milliwatts, so that the division by 1000 is exact.     *)
(***************************************************************************)
\* fan_<label>
FanName(n) == <<"fan_0", "fan_1", "fan_2">>[n + 1]

PressureLine(word)    == [k |-> "pressure", name |-> word, label |-> -1, v |-> None]
MilliwattLine(name, v) == [k |-> "mW", name |-> name, label |-> -1, v |-> v]
WattLine(name, v)     == [k |-> "W", name |-> name, label |-> -1, v |-> v]
CombinedLine(v)       == [k |-> "combined", name |-> "Combined", label |-> -1, v |-> v]
DieLine(name, v)      == [k |-> "die", name |-> name, label |-> -1, v |-> v]
SpeedLine(label, v)   == [k |-> "speed", name |-> "Fan", label |-> label, v |-> v]

\* A sensor name as a pattern captures it. The patterns whose name group is
\* [\w\s]+ also swallow the end of the line before (what follows its colon),
\* unless the pattern's previous match consumed that line: pre is what was
\* swallowed, NoPre when nothing was.
NoPre == [v |-> None, unit |-> ""]
Sensor(pre, name) == [pre |-> pre, name |-> name]
Plain(name) == Sensor(NoPre, name)

\* What follows the colon of a line (of 1.2.3, what follows its last dot).
TailOf(l) ==
    IF l.k = "pressure" THEN [v |-> None, unit |-> l.name]
    ELSE [v |-> IF l.v = Bad THEN Num(3) ELSE l.v,
          unit |-> CASE l.k \in {"mW", "combined"} -> "mW"
                     [] l.k = "W"     -> "W"
                     [] l.k = "die"   -> "C"
                     [] l.k = "speed" -> "rpm"]

\* What the [\w\s]+ group captures before the name of line i, for the pattern
\* that matches lines of its kind.
Prefixed(text, i) ==
    IF i = 1 \/ text[i - 1].k = text[i].k THEN NoPre ELSE TailOf(text[i - 1])

DieTemperatureName(name) ==
    CASE name = "CPU" -> "CPU_die_temperature"
      [] name = "GPU" -> "GPU_die_temperature"

\* f"temp_{len(temperatures)}"
TempName(n) ==
    <<"temp_0", "temp_1", "temp_2", "temp_3", "temp_4", "temp_5", "temp_6", "temp_7",
      "temp_8", "temp_9">>[n + 1]

THERMAL_LEVELS == {"Nominal", "Moderate", "Heavy", "Critical", "Serious"}

\* m_pressure = re.search(...): the first pressure line decides.
ParsePressure(text) ==
    LET ms == SelectSeq(text, LAMBDA l : l.k = "pressure") IN
    IF ms # <<>> /\ Head(ms).name \in THERMAL_LEVELS THEN Text(Head(ms).name) ELSE None

\* for m in re.finditer(r"(\w+)\s+Power\s*:\s*([\d.]+)\s*m?W", ...):
\*     power_estimates[name] = float(m.group(2)) / 1000.0
RECURSIVE ParsePowerMilli(_, _, _)
ParsePowerMilli(text, i, power) ==
    IF i > Len(text) THEN power
    ELSE ParsePowerMilli(text, i + 1,
            IF text[i].k \in {"mW", "W"} /\ text[i].v # Bad
            THEN Put(power, Plain(text[i].name), text[i].v)
            ELSE power)

\* m_combined = re.search(r"Combined\s+Power[^\n]*?:\s*([\d.]+)\s*m?W", ...)
ParsePowerCombined(text, power) ==
    LET ms == SelectSeq(text, LAMBDA l : l.k = "combined") IN
    IF ms # <<>> /\ Head(ms).v # Bad THEN Put(power, Plain("Combined"), Head(ms).v)
    ELSE power

\* for m in re.finditer(r"([\w\s]+)\s+power\s*:\s*([\d.]+)\s*W(?!\w)", ...):
\*     name = m.group(1).strip().replace(" ", "_")
\*     if name in ("Combined", "Total"): continue
\*     power_estimates[name] = float(m.group(2))
RECURSIVE ParsePowerWatt(_, _, _)
ParsePowerWatt(text, i, power) ==
    IF i > Len(text) THEN power
    ELSE LET name == Sensor(Prefixed(text, i), text[i].name) IN
         ParsePowerWatt(text, i + 1,
            IF /\ text[i].k = "W"
               /\ name \notin {Plain("Combined"), Plain("Total")}
               /\ text[i].v # Bad
            THEN Put(power, name, Num(1000 * text[i].v.n))
            ELSE power)

\* for m in re.finditer(r"([\w\s]+(?:die|package|thermal)\s*temperature)\s*:\s*([\d.]+)\s*C", ...):
\*     temperatures[m.group(1).strip().replace(" ", "_")] = float(m.group(2))
RECURSIVE ParseTempNamed(_, _, _)
ParseTempNamed(text, i, temps) ==
    IF i > Len(text) THEN temps
    ELSE ParseTempNamed(text, i + 1,
            IF text[i].k = "die" /\ text[i].v # Bad
            THEN Put(temps, Sensor(Prefixed(text, i), DieTemperatureName(text[i].name)),
                     text[i].v)
            ELSE temps)

\* for m in re.finditer(r"(?:Temperature|temp)[^\n]*?:\s*([\d.]+)\s*C", ...):
\*     temperatures[f"temp_{len(temperatures)}"] = float(m.group(1))
RECURSIVE ParseTempAny(_, _, _)
ParseTempAny(text, i, temps) ==
    IF i > Len(text) THEN temps
    ELSE ParseTempAny(text, i + 1,
            IF text[i].k = "die" /\ text[i].v # Bad
            THEN Put(temps, Plain(TempName(Cardinality(DOMAIN temps))), text[i].v)
            ELSE temps)

\* for m in re.finditer(r"Fan\s*(\d*)\s*speed\s*:\s*(\d+)\s*rpm", ...):
\*     label = m.group(1) or "0"; fan_speeds[fan_<label>] = int(m.group(2))
RECURSIVE ParseFans(_, _, _)
ParseFans(text, i, fans) ==
    IF i > Len(text) THEN fans
    ELSE ParseFans(text, i + 1,
            IF text[i].k = "speed"
            THEN Put(fans, FanName(IF text[i].label < 0 THEN 0 ELSE text[i].label),
                     text[i].v)
            ELSE fans)

\* _parse_powermetrics(stdout); has_hw is set by every successful assignment.
_parse_powermetrics(stdout) ==
    LET thermal_pressure == ParsePressure(stdout)
        power_estimates ==
            ParsePowerWatt(stdout, 1,
                ParsePowerCombined(stdout, ParsePowerMilli(stdout, 1, EmptyMap)))
        temperatures == ParseTempAny(stdout, 1, ParseTempNamed(stdout, 1, EmptyMap))
        fan_speeds   == ParseFans(stdout, 1, EmptyMap)
    IN  [temperatures |-> temperatures, fan_speeds |-> fan_speeds,
         power_estimates |-> power_estimates, thermal_pressure |-> thermal_pressure,
         has_hw |-> \/ ~IsNone(thermal_pressure)
                    \/ DOMAIN power_estimates # {}
                    \/ DOMAIN temperatures # {}
                    \/ DOMAIN fan_speeds # {}]

\* ---- the texts parsed
MaxPowerLines == 2       \* lines of a text

PowerLines ==
    {PressureLine("Nominal"), PressureLine("nominal"), PressureLine("Heavy"),
     MilliwattLine("CPU", Num(100)), MilliwattLine("CPU", Num(200)),
     MilliwattLine("CPU", Bad),
     WattLine("CPU", Num(2)), WattLine("Total", Num(5)),
     CombinedLine(Num(300)),
     DieLine("CPU", Num(45)), DieLine("CPU", Num(50)), DieLine("GPU", Num(45)),
     SpeedLine(1, Num(2000)), SpeedLine(1, Num(3000)), SpeedLine(-1, Num(1200))}

PowerTexts == UNION {[1..n -> PowerLines] : n \in 0..MaxPowerLines}

NoParse ==
    [temperatures |-> EmptyMap, fan_speeds |-> EmptyMap, power_estimates |-> EmptyMap,
     thermal_pressure |-> None, has_hw |-> FALSE]

ParseInit ==
    /\ pm_text \in PowerTexts
    /\ pm_out = NoParse
    /\ pm_pc = "call"

ParseIdle ==
    /\ pm_text = <<>>
    /\ pm_out = NoParse
    /\ pm_pc = "idle"

\* temps, fans, power, pressure, has_hw = _parse_powermetrics(pm_text)
ParseCall ==
    /\ pm_pc = "call"
    /\ pm_out' = _parse_powermetrics(pm_text)
    /\ pm_pc' = "done"
    /\ UNCHANGED pm_text

(***************************************************************************)
(* collectors/: CollectorResult, collect_safe, the host-counters collector *)
(* and the external-tools collector (whose helper logic is also            *)
(* metrics._run_external_temp_fan_tools)                                   *)
(***************************************************************************)
CollectorResult(success, error, data) ==
    [success |-> success, error |-> error, data |-> data]

\* How a call ends: it returns a value or raises an exception e, of which the
\* type and str(e) are kept.
Returned(v)        == [kind |-> "return", value |-> v]
Raised(type, text) == [kind |-> "raise", type |-> type, text |-> text]

\* The machine: platform.system(), and whether `import psutil` succeeds.
Platforms == {"Darwin", "Linux"}
Hosts     == [platform : Platforms, psutil : BOOLEAN]

\* What the host counters do when read: the calls outside any try block
\* (cpu_percent, virtual_memory) work or raise, the calls inside one work or
\* raise, and the values read.
HostReads ==
    [unguarded : {"ok", "AccessDenied"}, guarded : {"ok", "OSError"},
     cpu : {95, 99}, swap : {7}]

\* Mutation: the wrapper has no try block.
collect_safe_unguarded(outcome) == outcome

\* Mutation: the failed result carries no error text.
collect_safe_silent(outcome) ==
    IF outcome.kind = "raise"
    THEN Returned(CollectorResult(FALSE, None, EmptyMap))
    ELSE outcome

\* BaseCollector.collect_safe around a collect() that ended with outcome:
\*   try: return self.collect()
\*   except Exception as e: return CollectorResult(success=False, error=str(e), data={})
collect_safe(outcome) ==
    IF outcome.kind = "raise"
    THEN Returned(CollectorResult(FALSE, Text(outcome.text), EmptyMap))
    ELSE outcome

\* Mutation: the platform is not looked at.
psutil_collect_any_platform(h, now, rd) ==
    IF ~h.psutil
    THEN Returned(CollectorResult(FALSE, Text("psutil not installed"), EmptyMap))
    ELSE IF rd.unguarded # "ok" THEN Raised(rd.unguarded, "cpu_percent")
    ELSE Returned(CollectorResult(TRUE, None,
            ("timestamp" :> Num(now)) @@ ("cpu_percent" :> Num(rd.cpu)) @@
            ("swap_percent" :> Num(IF rd.guarded = "ok" THEN rd.swap ELSE 0))))

\* Mutation: the counters are read before the platform is looked at.
psutil_collect_late_check(h, now, rd) ==
    IF ~h.psutil
    THEN Returned(CollectorResult(FALSE, Text("psutil not installed"), EmptyMap))
    ELSE IF rd.unguarded # "ok" THEN Raised(rd.unguarded, "cpu_percent")
    ELSE IF h.platform # "Darwin"
    THEN Returned(CollectorResult(FALSE, Text("Not macOS"),
            ("timestamp" :> Num(now)) @@ ("cpu_percent" :> Num(rd.cpu))))
    ELSE Returned(CollectorResult(TRUE, None,
            ("timestamp" :> Num(now)) @@ ("cpu_percent" :> Num(rd.cpu)) @@
            ("swap_percent" :> Num(IF rd.guarded = "ok" THEN rd.swap ELSE 0))))

\* PsutilCollector.collect on host h at time now, the counters doing rd.
psutil_collect(h, now, rd) ==
    IF ~h.psutil
    THEN Returned(CollectorResult(FALSE, Text("psutil not installed"), EmptyMap))
    ELSE IF h.platform # "Darwin"
    THEN Returned(CollectorResult(FALSE, Text("Not macOS"), EmptyMap))
    ELSE IF rd.unguarded # "ok" THEN Raised(rd.unguarded, "cpu_percent")
    ELSE Returned(CollectorResult(TRUE, None,
            ("timestamp" :> Num(now)) @@ ("cpu_percent" :> Num(rd.cpu)) @@
            ("swap_percent" :> Num(IF rd.guarded = "ok" THEN rd.swap ELSE 0))))

\* NetworkCollector.collect: every counter read is inside a try block.
network_collect(h, rd) ==
    IF ~h.psutil
    THEN Returned(CollectorResult(FALSE, Text("psutil not installed"), EmptyMap))
    ELSE Returned(CollectorResult(TRUE, None,
            ("network" :> Num(IF rd.guarded = "ok" THEN rd.cpu ELSE 0))))

\* ProcessCollector.collect: the process walk is inside a try block.
process_collect(h, rd) ==
    IF ~h.psutil
    THEN Returned(CollectorResult(FALSE, Text("psutil not installed"), EmptyMap))
    ELSE Returned(CollectorResult(TRUE, None,
            ("processes" :> Num(IF rd.guarded = "ok" THEN 1 ELSE 0))))

\* ---- the helper tools' output
\* The names the third istats pattern looks for.
SENSOR_NAMES == {"GPU", "Battery", "Ambient", "Enclosure", "PCH", "SSD"}

\* A helper's output is a sequence of lines:
\*   temp    "<name> temp: <v> C"      fan   "Fan <label>: <v> rpm"
\*   sensor  "<name>: <v> C"           (label -1: "Fan: <v> rpm")
TempLine(name, v)   == [k |-> "temp", name |-> name, label |-> -1, v |-> v]
SensorLine(name, v) == [k |-> "sensor", name |-> name, label |-> -1, v |-> v]
FanLine(label, v)   == [k |-> "fan", name |-> "Fan", label |-> label, v |-> v]

\* re.finditer of (?:CPU\s+)?(?:temp(?:erature)?|Temp)\s*[:\s]+([\d.]+)\s*[°º]?\s*C
CpuTempMatches(text) == SelectSeq(text, LAMBDA l : l.k = "temp")

\* re.finditer of Fan\s*(\d*)\s*(?::|speed\s*[:\s]+)\s*([\d.]+)\s*rpm
HelperFanMatches(text) == SelectSeq(text, LAMBDA l : l.k = "fan")

\* re.finditer of (GPU|Battery|...)\s*(?:_)?(?:temp(?:erature)?)?\s*[:\s]+\s*([\d.]+)\s*[°º]?\s*C
SensorMatches(text) ==
    SelectSeq(text, LAMBDA l : l.k \in {"temp", "sensor"} /\ l.name \in SENSOR_NAMES)

\* re.search of ([\d.]+)\s*[°º]?\s*C
CelsiusMatches(text) == SelectSeq(text, LAMBDA l : l.k \in {"temp", "sensor"})

\* for m in ...: try: temps["CPU"] = float(m.group(1)); break
\*               except ValueError: pass
RECURSIVE FirstCpuTemp(_, _)
FirstCpuTemp(ms, temps) ==
    IF ms = <<>> THEN temps
    ELSE IF Head(ms).v = Bad THEN FirstCpuTemp(Tail(ms), temps)
    ELSE Put(temps, Plain("CPU"), Head(ms).v)

\* for m in ...: label = (m.group(1) or "0").strip(); fans[fan_<label>] = int(float(m.group(2)))
RECURSIVE HelperFans(_, _)
HelperFans(ms, fans) ==
    IF ms = <<>> THEN fans
    ELSE HelperFans(Tail(ms),
            Put(fans, FanName(IF Head(ms).label < 0 THEN 0 ELSE Head(ms).label),
                Head(ms).v))

\* for m in ...: try: temps[m.group(1).strip()] = float(m.group(2))
\*               except (ValueError, IndexError): pass
RECURSIVE SensorTemps(_, _)
SensorTemps(ms, temps) ==
    IF ms = <<>> THEN temps
    ELSE SensorTemps(Tail(ms),
            IF Head(ms).v = Bad THEN temps
            ELSE Put(temps, Plain(Head(ms).name), Head(ms).v))

\* The helper tools in the order they are run.
EXTERNAL_TOOLS == <<"istats extra", "istats", "osx-cpu-temp", "osx-cpu-temp -f">>

ExternalNext(i, temps, fans) ==
    [st |-> IF i < Len(EXTERNAL_TOOLS) THEN "next" ELSE "return",
     temps |-> temps, fans |-> fans, exc |-> "", text |-> ""]

ExternalReturn(temps, fans) ==
    [st |-> "return", temps |-> temps, fans |-> fans, exc |-> "", text |-> ""]

ExternalRaise(temps, fans, exc, text) ==
    [st |-> "raise", temps |-> temps, fans |-> fans, exc |-> exc, text |-> text]

\* Mutation: permission denied is caught like a missing tool.
ExternalStep_permissive(i, o, temps, fans) ==
    IF o.kind # "exit" THEN ExternalNext(i, temps, fans)
    ELSE IF i <= 2
    THEN IF o.returncode # 0 THEN ExternalNext(i, temps, fans)
         ELSE LET text == o.stdout \o o.stderr
                  t2   == SensorTemps(SensorMatches(text),
                              FirstCpuTemp(CpuTempMatches(text), temps))
                  f2   == HelperFans(HelperFanMatches(text), fans)
              IN  IF DOMAIN t2 # {} \/ DOMAIN f2 # {}
                  THEN ExternalReturn(t2, f2)
                  ELSE ExternalNext(i, t2, f2)
    ELSE IF i = 3
    THEN IF o.returncode = 0 /\ o.stdout # <<>> /\ CelsiusMatches(o.stdout) # <<>>
         THEN LET m == Head(CelsiusMatches(o.stdout)) IN
              IF m.v = Bad THEN ExternalNext(i, temps, fans)
              ELSE ExternalNext(i, Put(temps, Plain("CPU"), m.v), fans)
         ELSE ExternalNext(i, temps, fans)
    ELSE IF o.returncode = 0 /\ o.stdout # <<>> /\ HelperFanMatches(o.stdout) # <<>>
         THEN ExternalNext(i, temps, Put(fans, "fan_0", Head(HelperFanMatches(o.stdout)).v))
         ELSE ExternalNext(i, temps, fans)

\* One subprocess.run of the i-th helper tool, which did o, with the readings
\* found so far. The istats runs (1, 2) return as soon as any reading was
\* found; the two osx-cpu-temp runs (3, 4) each add one reading. TimeoutExpired
\* and FileNotFoundError are caught; any other exception leaves the function.
ExternalStep(i, o, temps, fans) ==
    IF o.kind \in {"TimeoutExpired", "FileNotFoundError"} THEN ExternalNext(i, temps, fans)
    ELSE IF o.kind # "exit" THEN ExternalRaise(temps, fans, o.kind, EXTERNAL_TOOLS[i])
    ELSE IF i <= 2
    THEN IF o.returncode # 0 THEN ExternalNext(i, temps, fans)
         ELSE LET text == o.stdout \o o.stderr
                  t2   == SensorTemps(SensorMatches(text),
                              FirstCpuTemp(CpuTempMatches(text), temps))
                  f2   == HelperFans(HelperFanMatches(text), fans)
              IN  IF DOMAIN t2 # {} \/ DOMAIN f2 # {}
                  THEN ExternalReturn(t2, f2)
                  ELSE ExternalNext(i, t2, f2)
    ELSE IF i = 3
    THEN IF o.returncode = 0 /\ o.stdout # <<>> /\ CelsiusMatches(o.stdout) # <<>>
         THEN LET m == Head(CelsiusMatches(o.stdout)) IN
              IF m.v = Bad THEN ExternalRaise(temps, fans, "ValueError", "float")
              ELSE ExternalNext(i, Put(temps, Plain("CPU"), m.v), fans)
         ELSE ExternalNext(i, temps, fans)
    ELSE IF o.returncode = 0 /\ o.stdout # <<>> /\ HelperFanMatches(o.stdout) # <<>>
         THEN ExternalNext(i, temps, Put(fans, "fan_0", Head(HelperFanMatches(o.stdout)).v))
         ELSE ExternalNext(i, temps, fans)

\* ---- what the helper tools are made to do
MaxHelperLines == 1      \* lines of a helper's output

HelperLines ==
    {TempLine("CPU", Num(45)), TempLine("GPU", Num(50)), TempLine("CPU", Bad),
     SensorLine("Battery", Num(32)), FanLine(1, Num(2345)), FanLine(-1, Num(1200))}

HelperTexts == UNION {[1..n -> HelperLines] : n \in 0..MaxHelperLines}

HelperOutcomes ==
    [kind : {"exit"}, returncode : {0, 1}, stdout : HelperTexts,
     stderr : {<<>>, <<FanLine(2, Num(900))>>}] \cup
    {[kind |-> k] : k \in {"TimeoutExpired", "FileNotFoundError", "PermissionError"}}

\* What is remembered of a tool run.
OutcomeKind(o) ==
    IF o.kind # "exit" THEN o.kind
    ELSE IF o.returncode # 0 THEN "failed"
    ELSE IF o.stdout = <<>> THEN "silent" ELSE "output"

ExternalData(temps, fans) ==
    ("temperatures_extra" :> Map(temps)) @@ ("fan_speeds_extra" :> Map(fans))

NoCall == [name |-> "none", safe |-> FALSE]
NoLoc  == [step |-> 0, temps |-> EmptyMap, fans |-> EmptyMap]

CollectorInit ==
    /\ host \in Hosts
    /\ col_pc = "idle"
    /\ col_call = NoCall
    /\ col_loc = NoLoc
    /\ col_seen = <<>>
    /\ col_raw = None
    /\ col_out = None

CollectorIdle ==
    /\ host = [platform |-> "Darwin", psutil |-> TRUE]
    /\ col_pc = "idle"
    /\ col_call = NoCall
    /\ col_loc = NoLoc
    /\ col_seen = <<>>
    /\ col_raw = None
    /\ col_out = None

\* The call ends: collect ended with outcome, and collect_safe, when the call
\* went through it, turns that into what the caller gets.
ColFinish(outcome) ==
    /\ col_raw' = outcome
    /\ col_out' = IF col_call'.safe THEN collect_safe(outcome) ELSE outcome
    /\ col_pc' = "done"

\* PsutilCollector(), NetworkCollector() or ProcessCollector(): .collect() or
\* .collect_safe(), the host counters doing rd.
ColCall(name, safe, rd) ==
    /\ col_pc = "idle"
    /\ col_call' = [name |-> name, safe |-> safe]
    /\ ColFinish(CASE name = "psutil"  -> psutil_collect(host, wall, rd)
                   [] name = "network" -> network_collect(host, rd)
                   [] name = "process" -> process_collect(host, rd))
    /\ UNCHANGED <<host, col_loc, col_seen>>

\* ExternalToolsCollector().collect() or .collect_safe() is entered.
ColExternalEnter(safe) ==
    /\ col_pc = "idle"
    /\ col_call' = [name |-> "external_tools", safe |-> safe]
    /\ col_loc' = [step |-> 1, temps |-> EmptyMap, fans |-> EmptyMap]
    /\ col_pc' = "tools"
    /\ UNCHANGED <<host, col_seen, col_raw, col_out>>

\* One subprocess.run of a helper tool, which did o, and what follows it up to
\* the next run or the end of collect.
ColExternalRun(o) ==
    LET r == ExternalStep(col_loc.step, o, col_loc.temps, col_loc.fans) IN
    /\ col_pc = "tools"
    /\ col_seen' = Append(col_seen, OutcomeKind(o))
    /\ col_call' = col_call
    /\ IF r.st = "next"
       THEN /\ col_loc' = [step |-> col_loc.step + 1, temps |-> r.temps, fans |-> r.fans]
            /\ UNCHANGED <<col_pc, col_raw, col_out>>
       ELSE /\ col_loc' = [col_loc EXCEPT !.temps = r.temps, !.fans = r.fans]
            /\ ColFinish(IF r.st = "raise" THEN Raised(r.exc, r.text)
                         ELSE Returned(CollectorResult(TRUE, None,
                                  ExternalData(r.temps, r.fans))))
    /\ UNCHANGED host

\* ---- PowermetricsCollector
\* Every pattern of _parse_powermetrics needs a colon and a unit or a level
\* word after it; the tool texts of this section (ToolTexts) hold no colon, so
\* the parser finds nothing in them.
ParsedToolText == NoParse

\* PowermetricsCollector.collect once raw is known: `if not raw` returns the
\* empty reading, otherwise what _parse_powermetrics(raw) found, with
\* smc_available = bool(temps or fans or power or pressure).
powermetrics_collect(raw) ==
    IF raw = <<>>
    THEN CollectorResult(TRUE, None,
            [temperatures |-> EmptyMap, fan_speeds |-> EmptyMap,
             power_estimates |-> EmptyMap, thermal_pressure |-> None,
             smc_available |-> FALSE])
    ELSE LET p == ParsedToolText IN
         CollectorResult(TRUE, None,
            [temperatures |-> p.temperatures, fan_speeds |-> p.fan_speeds,
             power_estimates |-> p.power_estimates,
             thermal_pressure |-> p.thermal_pressure, smc_available |-> p.has_hw])

\* PowermetricsCollector().collect() or .collect_safe() is entered and
\* _run_powermetrics reads the clock.
PmEnter(safe) ==
    /\ col_pc \in {"idle", "done"}
    /\ CacheEnter(1)
    /\ col_call' = [name |-> "powermetrics", safe |-> safe]
    /\ col_pc' = "raw"
    /\ col_seen' = <<>>
    /\ col_raw' = None
    /\ col_out' = None
    /\ UNCHANGED <<host, col_loc>>

\* The cache is looked at.
PmCheck ==
    /\ col_pc = "raw"
    /\ CacheCheck(1)
    /\ UNCHANGED collectorVars

\* One subprocess.run of the tool, which did o.
PmRunSampler(o) ==
    /\ col_pc = "raw"
    /\ CacheRunSampler(1, o)
    /\ col_seen' = Append(col_seen, [samplers |-> SAMPLERS[csampler[1]], did |-> o])
    /\ UNCHANGED <<host, col_pc, col_call, col_loc, col_raw, col_out>>

\* _run_powermetrics returns raw, from the cache or from the run, and collect
\* returns its result.
PmReturn ==
    /\ col_pc = "raw"
    /\ CacheReturnHit(1) \/ CacheStore(1)
    /\ col_call' = col_call
    /\ ColFinish(Returned(powermetrics_collect(cret'[1])))
    /\ UNCHANGED <<host, col_loc, col_seen>>

(***************************************************************************)
(* metrics.py: MacMetrics, collect, collect_full; cli.py: cmd_collect      *)
(*                                                                         *)
(* Of the fields of MacMetrics the model keeps one per source of values:   *)
(* two host counters (one read outside a try block, one inside), the four  *)
(* sensor fields, smc_available, error, timestamp, and the two fields      *)
(* collect_full takes from the network and process collectors (a number    *)
(* stands for the collection read, 0 for the empty one).                   *)
(***************************************************************************)
\* MacMetrics(): every field at its default.
MacMetrics ==
    [cpu_percent |-> Num(0), swap_percent |-> Num(0),
     temperatures |-> EmptyMap, fan_speeds |-> EmptyMap,
     power_estimates |-> EmptyMap, thermal_pressure |-> None,
     smc_available |-> FALSE, error |-> None, timestamp |-> Num(0),
     network |-> Num(0), processes |-> Num(0)]

\* Mutation: the counters are read before the platform is looked at.
collect_start_late_check(h, now, rd) ==
    LET m0 == [MacMetrics EXCEPT !.timestamp = Num(now)] IN
    IF rd.unguarded # "ok" THEN [st |-> "raise", m |-> m0]
    ELSE IF h.platform # "Darwin"
    THEN [st |-> "error",
          m |-> [m0 EXCEPT !.cpu_percent = Num(rd.cpu),
                           !.error = Text("This tool is for macOS only.")]]
    ELSE IF ~h.psutil
    THEN [st |-> "error",
          m |-> [m0 EXCEPT !.error = Text("Install psutil: pip install psutil")]]
    ELSE [st |-> "ok",
          m |-> [m0 EXCEPT !.cpu_percent = Num(rd.cpu),
                           !.swap_percent =
                               IF rd.guarded = "ok" THEN Num(rd.swap) ELSE @]]

\* collect(), from m = MacMetrics() to the reading of the host counters:
\*   m.timestamp = time.time()
\*   if platform.system() != "Darwin": m.error = ...; return m
\*   try: import psutil / except ImportError: m.error = ...; return m
\*   m.cpu_percent = psutil.cpu_percent(...)       (may raise)
\*   try: m.swap_percent = ... / except Exception: pass
collect_start(h, now, rd) ==
    LET m0 == [MacMetrics EXCEPT !.timestamp = Num(now)] IN
    IF h.platform # "Darwin"
    THEN [st |-> "error",
          m |-> [m0 EXCEPT !.error = Text("This tool is for macOS only.")]]
    ELSE IF ~h.psutil
    THEN [st |-> "error",
          m |-> [m0 EXCEPT !.error = Text("Install psutil: pip install psutil")]]
    ELSE IF rd.unguarded # "ok" THEN [st |-> "raise", m |-> m0]
    ELSE [st |-> "ok",
          m |-> [m0 EXCEPT !.cpu_percent = Num(rd.cpu),
                           !.swap_percent =
                               IF rd.guarded = "ok" THEN Num(rd.swap) ELSE @]]

\* temps, fans, power, thermal_pressure, has_hw = _parse_powermetrics(raw)
\* and the five assignments that follow.
collect_sensors(m, raw) ==
    LET p == _parse_powermetrics(raw) IN
    [m EXCEPT !.temperatures = p.temperatures, !.fan_speeds = p.fan_speeds,
              !.power_estimates = p.power_estimates,
              !.thermal_pressure = p.thermal_pressure,
              !.smc_available = p.has_hw]

\* Mutation: the external reading replaces the primary one.
merge_extra_overwrite(found, extra) ==
    [k \in (DOMAIN found) \cup (DOMAIN extra) |->
        IF k \in DOMAIN extra THEN extra[k] ELSE found[k]]

\* for k, v in extra.items():
\*     if k not in found: found[k] = v
merge_extra(found, extra) ==
    [k \in (DOMAIN found) \cup (DOMAIN extra) |->
        IF k \in DOMAIN found THEN found[k] ELSE extra[k]]

\* The end of collect(): both merges, and
\*   if extra_temps or extra_fans: m.smc_available = True
collect_merge(m, extra_temps, extra_fans) ==
    [m EXCEPT !.temperatures = merge_extra(@, extra_temps),
              !.fan_speeds = merge_extra(@, extra_fans),
              !.smc_available = @ \/ DOMAIN extra_temps # {} \/ DOMAIN extra_fans # {}]

\* res.data.get(key) or <default>, taken only if res.success and res.data
FieldFrom(res, key, default) ==
    IF res.success /\ DOMAIN res.data # {} /\ Truthy(Get(res.data, key, None))
    THEN res.data[key] ELSE default

\* collect_full() after m = collect() returned without error: the three
\* collectors run through collect_safe, and their data copied into m.
collect_full_rest(m, h, rd) ==
    LET nc   == collect_safe(network_collect(h, rd)).value
        proc == collect_safe(process_collect(h, rd)).value
    IN  [m EXCEPT !.network = FieldFrom(nc, "network", MacMetrics.network),
                  !.processes = FieldFrom(proc, "processes", MacMetrics.processes)]

COLLECTORS == {"PsutilCollector", "NetworkCollector", "ProcessCollector"}

\* cmd_collect after its first collection returned m:
\*   if args.json: ...; return 0
\*   if m.error: ...; return 1
\*   if args.watch: <loop>; return 0
\*   metrics_main(); return 0
cmd_collect_after(args, m) ==
    IF args.json THEN "return 0"
    ELSE IF Truthy(m.error) THEN "return 1"
    ELSE IF args.watch THEN "watch"
    ELSE "main"

\* metrics.main() after its own m = collect(): sys.exit(1) on an error,
\* else the tables are printed and cmd_collect returns 0.
metrics_main_after(m) == IF Truthy(m.error) THEN 1 ELSE 0

\* ---- the runs explored
MaxWatch == 2            \* iterations of the watch loop

CliArgs == [json : BOOLEAN, full : BOOLEAN, watch : BOOLEAN]

\* What _run_powermetrics_impl can return: "" or the tool's output.
SensorRaws ==
    {<<>>,
     <<SpeedLine(1, Num(2000))>>,
     <<DieLine("CPU", Num(45)), SpeedLine(-1, Num(1300))>>,
     <<PressureLine("Heavy"), MilliwattLine("CPU", Num(100))>>}

\* The counters as collect and collect_full read them.
SnapshotReads == {rd \in HostReads : rd.cpu = 95}

NoReadings == [temperatures |-> EmptyMap, fan_speeds |-> EmptyMap]
ReadingsOf(m) == [temperatures |-> m.temperatures, fan_speeds |-> m.fan_speeds]

\* The part of the state that belongs to cmd_collect alone.
SnapshotIdle ==
    /\ cli_args = [json |-> FALSE, full |-> FALSE, watch |-> FALSE]
    /\ cli_out = None
    /\ snap_phase = "first"
    /\ snap_pc = "idle"
    /\ snap = MacMetrics
    /\ snap_ext = NoLoc
    /\ snap_iter = 0
    /\ snap_log = {}
    /\ snap_found = NoReadings
    /\ snap_extra = NoReadings

\* A process that runs `collect` with some flags on some host; the sampling
\* cache is empty and the clock is at StartTime.
SnapshotInit ==
    /\ cli_args \in CliArgs
    /\ cli_out = None
    /\ snap_phase = "first"
    /\ snap_pc = "start"
    /\ snap = MacMetrics
    /\ snap_ext = NoLoc
    /\ snap_iter = 0
    /\ snap_log = {}
    /\ snap_found = NoReadings
    /\ snap_extra = NoReadings
    /\ CollectorInit
    /\ cache = None
    /\ ttl = _CACHE_TTL
    /\ wall = StartTime
    /\ cpc = [c \in Callers |-> "idle"]
    /\ cnow = [c \in Callers |-> 0]
    /\ csampler = [c \in Callers |-> 1]
    /\ craw = [c \in Callers |-> <<>>]
    /\ cret = [c \in Callers |-> <<>>]
    /\ runs = 0
    /\ goodrun = None
    /\ lastcall = None
    /\ thiscall = None

\* What the snapshot actions leave alone outside their own variables.
snapshotFrame ==
    <<alertVars, thermalVars, mergeVars, collectorVars, parseVars, configVars,
      workerVars, historyVars, ttl, cpc, cnow, csampler, craw, cret, runs, goodrun,
      lastcall, thiscall>>

\* The collection under way is collect_full(): the first one and those of the
\* watch loop with --full; metrics.main always calls collect().
UsesFull == cli_args.full /\ snap_phase # "main"

\* collect() returned m to collect_full or to its caller.
AfterCollect == IF UsesFull THEN "full" ELSE "decide"

\* collect() from its entry to the host counters, the counters doing rd.
SnapStart(rd) ==
    LET r == collect_start(host, wall, rd) IN
    /\ snap_pc = "start"
    /\ snap' = r.m
    /\ snap_log' = {}
    /\ snap_found' = NoReadings
    /\ snap_extra' = NoReadings
    /\ snap_ext' = NoLoc
    /\ IF r.st = "raise"
       THEN /\ cli_out' = Raised(rd.unguarded, "cpu_percent")
            /\ snap_pc' = "done"
       ELSE /\ cli_out' = cli_out
            /\ snap_pc' = IF r.st = "error" THEN AfterCollect ELSE "sensors"
    /\ UNCHANGED <<cli_args, snap_phase, snap_iter, cache, wall, snapshotFrame>>

\* raw = _run_powermetrics(), served from the cache or by a run of the tool
\* that returns out, then parsed into m.
SnapSensors(out) ==
    LET hit == cache_hit(cache, wall, ttl)
        raw == IF hit THEN cache.text ELSE out
    IN  /\ snap_pc = "sensors"
        /\ cache' = IF hit THEN cache ELSE cache_store(cache, wall, raw)
        /\ snap' = collect_sensors(snap, raw)
        /\ snap_log' = IF hit THEN snap_log ELSE snap_log \cup {"powermetrics"}
        /\ snap_found' = ReadingsOf(snap')
        /\ snap_ext' = [step |-> 1, temps |-> EmptyMap, fans |-> EmptyMap]
        /\ snap_pc' = "external"
        /\ UNCHANGED <<cli_args, cli_out, snap_phase, snap_iter, snap_extra, wall,
                       snapshotFrame>>

\* One subprocess.run of _run_external_temp_fan_tools, the helper doing o;
\* when the function returns, its readings are merged and collect() returns.
SnapExternalRun(o) ==
    LET r == ExternalStep(snap_ext.step, o, snap_ext.temps, snap_ext.fans) IN
    /\ snap_pc = "external"
    /\ snap_log' = snap_log \cup {EXTERNAL_TOOLS[snap_ext.step]}
    /\ CASE r.st = "next" ->
              /\ snap_ext' = [step |-> snap_ext.step + 1, temps |-> r.temps,
                              fans |-> r.fans]
              /\ UNCHANGED <<snap, snap_extra, cli_out, snap_pc>>
         [] r.st = "return" ->
              /\ snap_ext' = [snap_ext EXCEPT !.temps = r.temps, !.fans = r.fans]
              /\ snap' = collect_merge(snap, r.temps, r.fans)
              /\ snap_extra' = [temperatures |-> r.temps, fan_speeds |-> r.fans]
              /\ snap_pc' = AfterCollect
              /\ UNCHANGED cli_out
         [] r.st = "raise" ->
              /\ snap_ext' = [snap_ext EXCEPT !.temps = r.temps, !.fans = r.fans]
              /\ cli_out' = Raised(r.exc, r.text)
              /\ snap_pc' = "done"
              /\ UNCHANGED <<snap, snap_extra>>
    /\ UNCHANGED <<cli_args, snap_phase, snap_iter, snap_found, cache, wall,
                   snapshotFrame>>

\* collect_full() once m = collect() has returned:
\*   if m.error: return m
\* and else the three collectors, the counters doing rd.
SnapFull(rd) ==
    /\ snap_pc = "full"
    /\ IF Truthy(snap.error)
       THEN UNCHANGED <<snap, snap_log>>
       ELSE /\ snap' = collect_full_rest(snap, host, rd)
            /\ snap_log' = snap_log \cup COLLECTORS
    /\ snap_pc' = "decide"
    /\ UNCHANGED <<cli_args, cli_out, snap_phase, snap_iter, snap_ext, snap_found,
                   snap_extra, cache, wall, snapshotFrame>>

\* What cmd_collect does with the snapshot it got: after the first
\* collection, one of its four branches; in the watch loop, the line is
\* printed and, after the sleep, the next collection starts; after the
\* collection of metrics.main, the exit code.
SnapDecide ==
    /\ snap_pc = "decide"
    /\ CASE snap_phase = "first" ->
              LET d == cmd_collect_after(cli_args, snap) IN
              /\ cli_out' = CASE d = "return 0" -> Num(0)
                              [] d = "return 1" -> Num(1)
                              [] OTHER -> None
              /\ snap_phase' = IF d \in {"watch", "main"} THEN d ELSE snap_phase
              /\ snap_pc' = IF d \in {"watch", "main"} THEN "start" ELSE "done"
              /\ snap_iter' = IF d = "watch" THEN 1 ELSE snap_iter
         [] snap_phase = "watch" ->
              /\ snap_iter < MaxWatch
              /\ snap_iter' = snap_iter + 1
              /\ snap_pc' = "start"
              /\ UNCHANGED <<cli_out, snap_phase>>
         [] snap_phase = "main" ->
              /\ cli_out' = Num(metrics_main_after(snap))
              /\ snap_pc' = "done"
              /\ UNCHANGED <<snap_phase, snap_iter>>
    /\ UNCHANGED <<cli_args, snap, snap_ext, snap_log, snap_found, snap_extra, cache,
                   wall, snapshotFrame>>

\* except KeyboardInterrupt: pass, then return 0: the only way out of the
\* watch loop short of an exception.
SnapInterrupt ==
    /\ snap_phase = "watch"
    /\ cli_out = None
    /\ cli_out' = Num(0)
    /\ snap_pc' = "done"
    /\ UNCHANGED <<cli_args, snap_phase, snap, snap_ext, snap_iter, snap_log,
                   snap_found, snap_extra, cache, wall, snapshotFrame>>

\* One second passes while the command runs. The clock is read on entry to
\* collect() and to _run_powermetrics(): a second that passes elsewhere shows
\* at the next of these. The clock runs until an entry cached at the start
\* has expired.
SnapTick ==
    /\ cli_out = None
    /\ snap_pc \in {"start", "sensors"}
    /\ wall < StartTime + _CACHE_TTL
    /\ wall' = wall + 1
    /\ UNCHANGED <<snapshotVars, cache, snapshotFrame>>

(***************************************************************************)
(* config.py: DEFAULTS, the file overlay and the environment overlay       *)
(*                                                                         *)
(* A settings mapping is a function over its keys; a value is a number or  *)
(* a nested mapping. A dot path is held as the sequence of its segments,   *)
(* which is what key_path.split(".") makes of it. Of the settings, the     *)
(* model keeps two sections and three keys: api.port and                   *)
(* metrics.powermetrics_timeout_sec, which an environment variable can     *)
(* set, and metrics.process_top_n, which none can.                         *)
(***************************************************************************)
DEFAULTS ==
    ("api" :> Map("port" :> Num(8765))) @@
    ("metrics" :> Map(("powermetrics_timeout_sec" :> Num(8)) @@
                      ("process_top_n" :> Num(20))))

\* _deep_merge(base, override): a copy of base in which every key of override
\* is set, mappings on both sides being merged in turn.
RECURSIVE _deep_merge(_, _)
_deep_merge(base, override) ==
    [k \in (DOMAIN base) \cup (DOMAIN override) |->
        IF k \notin DOMAIN override THEN base[k]
        ELSE IF k \in DOMAIN base /\ IsMap(base[k]) /\ IsMap(override[k])
        THEN Map(_deep_merge(base[k].m, override[k].m))
        ELSE override[k]]

\* The loop of get: for k in keys: merged = merged[k], or return default.
RECURSIVE WalkPath(_, _, _)
WalkPath(merged, keys, default) ==
    IF keys = <<>> THEN merged
    ELSE IF IsMap(merged) /\ Head(keys) \in DOMAIN merged.m
    THEN WalkPath(merged.m[Head(keys)], Tail(keys), default)
    ELSE default

\* get(key_path, default) when _config_overrides is overrides.
get(overrides, key_path, default) ==
    WalkPath(Map(_deep_merge(DEFAULTS, overrides)), key_path, default)

\* utils.env_int(key, default): int(os.environ.get(key, default)), default on
\* ValueError. A string of decimal digits, surrounding whitespace allowed, is
\* its value; the other strings used here are rejected.
env_int(env, key, default) ==
    IF IsNone(env[key]) THEN default
    ELSE IF IsDigits(Strip(env[key].s)) THEN DigitsValue(Strip(env[key].s))
    ELSE default

\* _env_overrides(): the settings the environment can set, in the order of
\* the dictionary.
_env_overrides(env) ==
    <<[path |-> <<"metrics", "powermetrics_timeout_sec">>,
       value |-> env_int(env, "MSM_POWERMETRICS_TIMEOUT", 0)],
      [path |-> <<"api", "port">>, value |-> env_int(env, "MSM_API_PORT", 0)]>>

\* The body of the loop of _apply_env for one path: walk d along keys[:-1],
\* creating the mappings that are missing, and stop at a value that is not a
\* mapping; then set keys[-1] in the mapping reached.
RECURSIVE SetPath(_, _, _)
SetPath(d, keys, value) ==
    IF Len(keys) = 1 THEN Put(d, keys[1], value)
    ELSE LET k  == Head(keys)
             d1 == IF k \in DOMAIN d THEN d ELSE Put(d, k, Map(EmptyMap))
         IN  IF ~IsMap(d1[k]) THEN Put(d1, keys[Len(keys)], value)
             ELSE Put(d1, k, Map(SetPath(d1[k].m, Tail(keys), value)))

\* _apply_env(): every value that is not 0 or False is written into
\* _config_overrides.
RECURSIVE ApplyEntries(_, _)
ApplyEntries(overrides, es) ==
    IF es = <<>> THEN overrides
    ELSE ApplyEntries(IF Head(es).value = 0 THEN overrides
                      ELSE SetPath(overrides, Head(es).path, Num(Head(es).value)),
                      Tail(es))

_apply_env(overrides, env) == ApplyEntries(overrides, _env_overrides(env))

\* load_config_file(path) when the file is f: missing, unreadable, or holding
\* the value data; only a mapping is merged over _config_overrides.
load_config_file(overrides, f) ==
    IF f.kind = "data" /\ IsMap(f.data)
    THEN [ok |-> TRUE, overrides |-> _deep_merge(overrides, f.data.m)]
    ELSE [ok |-> FALSE, overrides |-> overrides]

\* ---- the environments and files explored
MaxLoads == 2            \* calls of load_config_file

ENV_VARS == {"MSM_API_PORT", "MSM_POWERMETRICS_TIMEOUT"}

\* "9", "0", "x" and "7"
Environments ==
    {e \in [ENV_VARS -> {None, Str(<<57>>), Str(<<48>>), Str(<<120>>), Str(<<55>>)}] :
        e["MSM_POWERMETRICS_TIMEOUT"] \in {None, Str(<<55>>)}}

\* What a file gives a section: a mapping of some of its keys, or a number.
SectionValues(section) ==
    IF section = "api" THEN {Num(5), Map("port" :> Num(8)), Map(EmptyMap)}
    ELSE {Map("process_top_n" :> Num(3)), Map("powermetrics_timeout_sec" :> Num(4))}

ConfigDicts ==
    UNION {{d \in [secs -> UNION {SectionValues(x) : x \in secs}] :
               \A x \in secs : d[x] \in SectionValues(x)} :
           secs \in SUBSET {"api", "metrics"}}

ConfigFiles ==
    {[kind |-> "missing"], [kind |-> "unreadable"]} \cup
    {[kind |-> "data", data |-> v] : v \in {None} \cup {Map(d) : d \in ConfigDicts}}

ConfigInit ==
    /\ environ \in Environments
    /\ _config_overrides = EmptyMap
    /\ cfg_pc = "import"
    /\ cfg_file = EmptyMap
    /\ cfg_loads = 0

\* The module imported in a process without MSM_* variables.
ConfigIdle ==
    /\ environ = [v \in ENV_VARS |-> None]
    /\ _config_overrides = EmptyMap
    /\ cfg_pc = "ready"
    /\ cfg_file = EmptyMap
    /\ cfg_loads = 0

\* import config: the module body runs _apply_env() once.
ConfigImport ==
    /\ cfg_pc = "import"
    /\ _config_overrides' = _apply_env(_config_overrides, environ)
    /\ cfg_pc' = "ready"
    /\ UNCHANGED <<environ, cfg_file, cfg_loads>>

\* load_config_file(), the file found being f.
ConfigLoad(f) ==
    LET r == load_config_file(_config_overrides, f) IN
    /\ cfg_pc = "ready"
    /\ cfg_loads < MaxLoads
    /\ _config_overrides' = r.overrides
    /\ cfg_file' = IF r.ok THEN f.data.m ELSE cfg_file
    /\ cfg_loads' = cfg_loads + 1
    /\ UNCHANGED <<environ, cfg_pc>>

(***************************************************************************)
(* alerts.py: rules on several metrics, snapshots with missing, null and   *)
(* unconvertible values                                                    *)
(***************************************************************************)
\* AlertRule(id=..., metric=..., operator=..., value=..., cooldown_sec=...)
RuleOn(metric, id, operator, value, cooldown) ==
    [Rule(id, id, operator, value, "warning", TRUE, cooldown) EXCEPT !.metric = metric]

\* Rules on the thermal level with every operator, one on cpu_percent and one
\* on a metric no snapshot has, in the order in which they are added.
MetricCatalog ==
    <<RuleOn("thermal_pressure", "t1", "gt", -2, 0),
      RuleOn("memory_percent", "m1", "gte", 0, 0),
      RuleOn("cpu_percent", "c1", "gte", 90, 0),
      RuleOn("thermal_pressure", "t2", "gte", 2, 0),
      RuleOn("thermal_pressure", "t3", "eq", 0, 2),
      RuleOn("thermal_pressure", "t4", "lt", 4, 0),
      RuleOn("thermal_pressure", "t5", "lte", 5, 0)>>

\* The rule comes later in the catalogue than every rule the engine holds.
ComesNext(rule) ==
    \E i \in 1..Len(MetricCatalog) :
        /\ MetricCatalog[i] = rule
        /\ \A j \in 1..Len(rules) : \E k \in 1..(i - 1) : MetricCatalog[k] = rules[j]

\* The levels a snapshot holds: None, and Nominal, Serious, Critical, a word
\* outside the vocabulary and "", as written or with the first letter
\* recased, with or without whitespace behind.
LevelInputs ==
    {[word |-> 0, flip |-> {}, padL |-> <<>>, padR |-> <<>>]} \cup
    UNION {{[word |-> k, flip |-> f, padL |-> <<>>, padR |-> r] :
               f \in SUBSET ({1} \cap (1..Len(ThermalWords[k]))), r \in {<<>>, Pad(1)}} :
           k \in {1, 3, 5, 6, 7}}

\* "abc"
W_abc == <<97, 98, 99>>

\* The snapshots offered to evaluate: the level varies (absent, not a string,
\* or one of LevelInputs) beside a cpu_percent of 95, or cpu_percent varies
\* (absent, None, a string that is no number, a mapping) beside Serious.
MetricSnapshots ==
    {[k \in {"cpu_percent"} |-> Num(95)],
     ("cpu_percent" :> Num(95)) @@ ("thermal_pressure" :> Num(2))}
    \cup {("cpu_percent" :> Num(95)) @@ ("thermal_pressure" :> Render(in)) :
             in \in LevelInputs}
    \cup {[k \in {"thermal_pressure"} |-> Str(W_Serious)]}
    \cup {("cpu_percent" :> v) @@ ("thermal_pressure" :> Str(W_Serious)) :
             v \in {None, Str(W_abc), Str(<<57, 53>>), Map(EmptyMap)}}

(***************************************************************************)
(* Specifications                                                          *)
(***************************************************************************)
\* The parts a specification does not exercise stay as constructed.
ExceptAlertIdle ==
    ThermalIdle /\ MergeIdle /\ CacheIdle /\ CollectorIdle /\ ParseIdle /\
    SnapshotIdle /\ ConfigIdle /\ WorkerIdle /\ HistoryIdle
ExceptThermalIdle ==
    AlertIdle /\ MergeIdle /\ CacheIdle /\ CollectorIdle /\ ParseIdle /\
    SnapshotIdle /\ ConfigIdle /\ WorkerIdle /\ HistoryIdle
ExceptMergeIdle ==
    AlertIdle /\ ThermalIdle /\ CacheIdle /\ CollectorIdle /\ ParseIdle /\
    SnapshotIdle /\ ConfigIdle /\ WorkerIdle /\ HistoryIdle
ExceptCacheIdle ==
    AlertIdle /\ ThermalIdle /\ MergeIdle /\ CollectorIdle /\ ParseIdle /\
    SnapshotIdle /\ ConfigIdle /\ WorkerIdle /\ HistoryIdle
ExceptCollectorIdle ==
    AlertIdle /\ ThermalIdle /\ MergeIdle /\ CacheIdle /\ ParseIdle /\
    SnapshotIdle /\ ConfigIdle /\ WorkerIdle /\ HistoryIdle
ExceptParseIdle ==
    AlertIdle /\ ThermalIdle /\ MergeIdle /\ CacheIdle /\ CollectorIdle /\
    SnapshotIdle /\ ConfigIdle /\ WorkerIdle /\ HistoryIdle
ExceptSnapshotIdle ==
    AlertIdle /\ ThermalIdle /\ MergeIdle /\ CacheIdle /\ CollectorIdle /\
    ParseIdle /\ ConfigIdle /\ WorkerIdle /\ HistoryIdle
ExceptConfigIdle ==
    AlertIdle /\ ThermalIdle /\ MergeIdle /\ CacheIdle /\ CollectorIdle /\
    ParseIdle /\ SnapshotIdle /\ WorkerIdle /\ HistoryIdle
ExceptWorkerIdle ==
    AlertIdle /\ ThermalIdle /\ MergeIdle /\ CacheIdle /\ CollectorIdle /\
    ParseIdle /\ SnapshotIdle /\ ConfigIdle /\ HistoryIdle
ExceptHistoryIdle ==
    AlertIdle /\ ThermalIdle /\ MergeIdle /\ CacheIdle /\ CollectorIdle /\
    ParseIdle /\ SnapshotIdle /\ ConfigIdle /\ WorkerIdle

\* The alert engine: rules come and go, snapshots are evaluated, time passes.
Init == AlertInit /\ ExceptAlertIdle

Next ==
    \/ /\ Len(rules) < MaxRules
       /\ \E rule \in Catalog : AddRule(rule)
       /\ UNCHANGED exceptAlertVars
    \/ /\ \E id \in RuleIds : RemoveRule(id)
       /\ UNCHANGED exceptAlertVars
    \/ /\ Len(fired) < MaxFired
       /\ \E metrics \in Snapshots : Evaluate(metrics)
       /\ UNCHANGED exceptAlertVars
    \/ /\ ClearEvents
       /\ UNCHANGED exceptAlertVars
    \/ /\ clock < StartTime + MaxTicks
       /\ Tick
       /\ UNCHANGED exceptAlertVars

Spec == Init /\ [][Next]_vars

\* The engine with a reader of its history (the dashboard's alerts tab).
MaxLimit == 2        \* the largest limit asked for

NextQuery ==
    \/ Next
    \/ /\ \E limit \in 0..MaxLimit : GetEvents(limit)
       /\ UNCHANGED exceptAlertVars

SpecQuery == Init /\ [][NextQuery]_vars

\* The engine holding rules with long cooldowns: the default of 60 s, and a
\* cooldown as long as the clock's reading (a clock that counts from a recent
\* start, or a cooldown of decades on the epoch clock).
PatientCatalog ==
    {Rule("r1", "High CPU",  "gte", 90, "critical", TRUE, 60),
     Rule("r2", "CPU is 95", "eq",  95, "warning",  TRUE, StartTime + 1),
     Rule("r3", "Low CPU",   "lt",  99, "info",     TRUE, 1)}

NextPatient ==
    \/ /\ Len(rules) < MaxRules
       /\ \E rule \in PatientCatalog : AddRule(rule)
       /\ UNCHANGED exceptAlertVars
    \/ /\ Len(fired) < MaxFired
       /\ \E metrics \in Snapshots : Evaluate(metrics)
       /\ UNCHANGED exceptAlertVars
    \/ /\ ClearEvents
       /\ UNCHANGED exceptAlertVars
    \/ /\ clock < StartTime + MaxTicks
       /\ Tick
       /\ UNCHANGED exceptAlertVars

SpecPatient == Init /\ [][NextPatient]_vars

\* One engine polled from two threads.
threadFrame ==
    <<thermalVars, mergeVars, cacheVars, collectorVars, parseVars, snapshotVars,
      configVars, historyVars>>

NextThreads ==
    \/ /\ AllIdle /\ Len(rules) < MaxRules
       /\ \E rule \in ThreadCatalog : AddRule(rule)
       /\ UNCHANGED <<workerVars, threadFrame>>
    \/ /\ Len(fired) < MaxFired
       /\ \E w \in Workers, metrics \in ThreadSnapshots : ThreadEnter(w, metrics)
       /\ UNCHANGED threadFrame
    \/ /\ \E w \in Workers : ThreadRule(w)
       /\ UNCHANGED threadFrame
    \/ /\ \E w \in Workers : ThreadStamp(w)
       /\ UNCHANGED threadFrame
    \/ /\ \E w \in Workers : ThreadAppend(w)
       /\ UNCHANGED threadFrame
    \/ /\ \E w \in Workers : ThreadTrim(w)
       /\ UNCHANGED threadFrame
    \/ /\ \E w \in Workers : ThreadReturn(w)
       /\ UNCHANGED threadFrame
    \/ /\ clock < StartTime + MaxTicks
       /\ Tick
       /\ UNCHANGED <<workerVars, threadFrame>>

SpecThreads == Init /\ [][NextThreads]_vars

\* One HistoryPersistence used by a polling loop.
InitHistory == HistoryInit /\ ExceptHistoryIdle

NextHistory ==
    \/ /\ Len(hp_call.log) < MaxAppends
       /\ \E w \in WriteOutcomes : HpAppend(w)
       /\ UNCHANGED exceptHistoryVars
    \/ /\ \E w \in WriteOutcomes : HpSave(w)
       /\ UNCHANGED exceptHistoryVars
    \/ /\ HpLoad
       /\ UNCHANGED exceptHistoryVars
    \/ /\ \E w \in WriteOutcomes : HpClear(w)
       /\ UNCHANGED exceptHistoryVars
    \/ /\ hp_clock < StartTime + MaxTicks
       /\ HpTick
       /\ UNCHANGED exceptHistoryVars

SpecHistory == InitHistory /\ [][NextHistory]_vars

\* The event history overflows: rules without cooldown are added to a new
\* engine, then evaluated until the history has wrapped. The clock stands still
\* while the history fills and advances once it is about to wrap, so that the
\* events around the wrap differ in their timestamps.
MaxRing == 502

RingCatalog ==
    {Rule("r1", "Low CPU", "lt",  99, "info",    TRUE, 0),
     Rule("r3", "Any CPU", "gte", 0,  "warning", TRUE, 0)}

RingSnapshot == [k \in {"cpu_percent"} |-> Num(95)]

NextRing ==
    \/ /\ Len(fired) = 0
       /\ Len(rules) < MaxRules
       /\ \E rule \in RingCatalog : AddRule(rule)
       /\ UNCHANGED exceptAlertVars
    \/ /\ Len(fired) < MaxRing
       /\ Evaluate(RingSnapshot)
       /\ UNCHANGED exceptAlertVars
    \/ /\ Len(fired) >= _max_events - 1
       /\ clock < StartTime + MaxTicks
       /\ Tick
       /\ UNCHANGED exceptAlertVars

SpecRing == Init /\ [][NextRing]_vars

\* thermal_pressure_level applied to one argument.
InitThermal == ThermalInit /\ ExceptThermalIdle

NextThermal == ThermalCall /\ UNCHANGED exceptThermalVars

SpecThermal == InitThermal /\ [][NextThermal]_vars

\* merge_into applied to one pair of mappings.
InitMerge == MergeInit /\ ExceptMergeIdle

NextMerge == MergeCall /\ UNCHANGED exceptMergeVars

SpecMerge == InitMerge /\ [][NextMerge]_vars

\* merge_into applied to mappings nested two levels down.
InitDeepMerge == DeepMergeInit /\ ExceptMergeIdle

SpecDeepMerge == InitDeepMerge /\ [][NextMerge]_vars

\* The sampling cache polled by a single-threaded loop (caller 1).
InitCache == CacheInit /\ ExceptCacheIdle

NextCache ==
    \/ /\ CacheEnter(1)
       /\ UNCHANGED exceptCacheVars
    \/ /\ cache_hit(cache, cnow[1], ttl) \/ runs < MaxRuns
       /\ CacheCheck(1)
       /\ UNCHANGED exceptCacheVars
    \/ /\ CacheReturnHit(1)
       /\ UNCHANGED exceptCacheVars
    \/ /\ \E o \in ToolOutcomes : CacheRunSampler(1, o)
       /\ UNCHANGED exceptCacheVars
    \/ /\ CacheStore(1)
       /\ UNCHANGED exceptCacheVars
    \/ /\ wall < MaxWall
       /\ CacheTick
       /\ UNCHANGED exceptCacheVars

SpecCache == InitCache /\ [][NextCache]_vars

\* The sampling cache called from two threads at once: every step of either
\* caller may fall between any two steps of the other. The seconds pass while
\* a caller waits for the tool; the other statements take no time to speak of.
MaxSharedRuns == 2   \* runs of the tool by the two callers together
MaxSharedWall == 2   \* seconds the clock advances while they run

NextCacheShared ==
    \/ /\ runs < MaxSharedRuns
       /\ \E c \in Callers : CacheEnter(c)
       /\ UNCHANGED exceptCacheVars
    \/ /\ \E c \in Callers :
            /\ cache_hit(cache, cnow[c], ttl) \/ runs < MaxSharedRuns
            /\ CacheCheck(c)
       /\ UNCHANGED exceptCacheVars
    \/ /\ \E c \in Callers : CacheReturnHit(c)
       /\ UNCHANGED exceptCacheVars
    \/ /\ \E c \in Callers, o \in ToolOutcomes : CacheRunSampler(c, o)
       /\ UNCHANGED exceptCacheVars
    \/ /\ \E c \in Callers : CacheStore(c)
       /\ UNCHANGED exceptCacheVars
    \/ /\ wall < MaxSharedWall
       /\ \E c \in Callers : cpc[c] = "impl"
       /\ CacheTick
       /\ UNCHANGED exceptCacheVars

InitCacheShared == CacheInit /\ ttl = _CACHE_TTL /\ ExceptCacheIdle

SpecCacheShared == InitCacheShared /\ [][NextCacheShared]_vars


\* One call of a collector, directly or through collect_safe, on some machine.
InitCollectors == CollectorInit /\ ExceptCollectorIdle

NextCollectors ==
    \/ /\ \E name \in {"psutil", "network", "process"}, safe \in BOOLEAN, rd \in HostReads :
              ColCall(name, safe, rd)
       /\ UNCHANGED exceptCollectorVars
    \/ /\ \E safe \in BOOLEAN : ColExternalEnter(safe)
       /\ UNCHANGED exceptCollectorVars
    \/ /\ \E o \in HelperOutcomes : ColExternalRun(o)
       /\ UNCHANGED exceptCollectorVars

SpecCollectors == InitCollectors /\ [][NextCollectors]_vars

\* PowermetricsCollector polled by a single-threaded loop.
pmFrame ==
    <<alertVars, thermalVars, mergeVars, parseVars, snapshotVars, configVars,
      workerVars, historyVars>>

NextPowermetrics ==
    \/ /\ runs < MaxRuns
       /\ \E safe \in BOOLEAN : PmEnter(safe)
       /\ UNCHANGED pmFrame
    \/ /\ PmCheck
       /\ UNCHANGED pmFrame
    \/ /\ \E o \in ToolOutcomes : PmRunSampler(o)
       /\ UNCHANGED pmFrame
    \/ /\ PmReturn
       /\ UNCHANGED pmFrame
    \/ /\ wall < MaxWall
       /\ col_pc = "done"
       /\ CacheTick
       /\ UNCHANGED <<collectorVars, pmFrame>>

SpecPowermetrics == InitCacheShared /\ [][NextPowermetrics]_vars

\* _parse_powermetrics applied to one text.
InitParse == ParseInit /\ ExceptParseIdle

NextParse ==
    ParseCall /\ UNCHANGED exceptParseVars

SpecParse == InitParse /\ [][NextParse]_vars

\* ---- one run of the collect command
InitSnapshot ==
    SnapshotInit /\ AlertIdle /\ ThermalIdle /\ MergeIdle /\ ParseIdle /\ ConfigIdle /\
    WorkerIdle /\ HistoryIdle

NextSnapshot ==
    \/ \E rd \in SnapshotReads : SnapStart(rd)
    \/ \E out \in SensorRaws : SnapSensors(out)
    \/ \E o \in HelperOutcomes : SnapExternalRun(o)
    \/ \E rd \in SnapshotReads : SnapFull(rd)
    \/ SnapDecide
    \/ SnapInterrupt
    \/ SnapTick

SpecSnapshot == InitSnapshot /\ [][NextSnapshot]_vars

\* ---- the settings of one process
InitConfig == ConfigInit /\ ExceptConfigIdle

NextConfig ==
    \/ ConfigImport /\ UNCHANGED exceptConfigVars
    \/ \E f \in ConfigFiles : ConfigLoad(f) /\ UNCHANGED exceptConfigVars

SpecConfig == InitConfig /\ [][NextConfig]_vars

\* ---- the alert engine with rules on several metrics: the rules are added
\* first, in the order of the catalogue, then snapshots are evaluated, a
\* second apart.
NextMetrics ==
    \/ /\ Len(rules) < MaxRules
       /\ call.op \in {"init", "add_rule"}
       /\ \E rule \in Range(MetricCatalog) : ComesNext(rule) /\ AddRule(rule)
       /\ UNCHANGED exceptAlertVars
    \/ /\ Len(fired) < MaxFired
       /\ call.op # "evaluate"
       /\ \E metrics \in MetricSnapshots : Evaluate(metrics)
       /\ UNCHANGED exceptAlertVars
    \/ /\ clock < StartTime + MaxTicks
       /\ call.op = "evaluate"
       /\ Tick
       /\ UNCHANGED exceptAlertVars

SpecMetrics == Init /\ [][NextMetrics]_vars

(***************************************************************************)
(* Properties of the alert engine                                          *)
(***************************************************************************)
\* The events of rule id in a list of events, in order.
EventsOf(log, id) == SelectSeq(log, LAMBDA e : e.rule_id = id)

\* The snapshot resolves the rule's metric and satisfies its comparison.
Satisfied(r, metrics) ==
    LET val == _get_metric_value(metrics, r.metric)
    IN  ~IsNone(val) /\ _eval_rule(r, val.n)

\* The step is an evaluate call (its snapshot, time and result are in call').
IsEvaluate == call'.op = "evaluate"

\* C1: once a rule has fired at time t (no clear_events since), an evaluate call
\* at t' < t + cooldown_sec with a satisfying snapshot records and returns no
\* event for it, and one at t' >= t + cooldown_sec records exactly one new event
\* for it, carrying the snapshot's value, the rule's threshold and the time t'.
C1_CooldownWindow ==
    [][IsEvaluate =>
        \A i \in 1..Len(rules) :
            LET r   == rules[i]
                new == EventsOf(call'.ret, r.id)
            IN  (r.enabled /\ HasFired(fired, r.id) /\ Satisfied(r, call'.metrics)) =>
                    /\ EventsOf(events', r.id) = EventsOf(events, r.id) \o new
                    /\ IF call'.now < LastFiredAt(fired, r.id) + r.cooldown_sec
                       THEN new = <<>>
                       ELSE /\ Len(new) = 1
                            /\ new[1].value = call'.metrics[r.metric].n
                            /\ new[1].threshold = r.value
                            /\ new[1].timestamp = call'.now]_vars

\* C1 witness: the end-to-end example. The rule cpu_percent gte 90 fired on 95,
\* and a later evaluate of 99 inside its cooldown returned no event.
C1_Witness ==
    /\ call.op = "evaluate"
    /\ call.ret = <<>>
    /\ call.metrics = [k \in {"cpu_percent"} |-> Num(99)]
    /\ \E i \in 1..Len(rules) :
          /\ rules[i].operator = "gte" /\ rules[i].value = 90 /\ rules[i].enabled
          /\ Len(fired) = 1
          /\ fired[1].rule_id = rules[i].id
          /\ fired[1].value = 95 /\ fired[1].threshold = 90
          /\ fired[1].timestamp < call.now
          /\ call.now < fired[1].timestamp + rules[i].cooldown_sec

\* C2: an evaluate call returns no event for a disabled rule, records none in
\* the history and leaves its last-fire time as it was.
C2_DisabledNeverFires ==
    [][IsEvaluate =>
        \A i \in 1..Len(rules) :
            LET r == rules[i] IN
            ~r.enabled =>
                /\ EventsOf(call'.ret, r.id) = <<>>
                /\ EventsOf(events', r.id) = EventsOf(events, r.id)
                /\ (r.id \in DOMAIN last_fire') = (r.id \in DOMAIN last_fire)
                /\ r.id \in DOMAIN last_fire => last_fire'[r.id] = last_fire[r.id]]_vars

\* C2 witness: a disabled rule that never fired, whose comparison the evaluated
\* snapshot satisfies, was passed over while another rule fired.
C2_Witness ==
    /\ call.op = "evaluate"
    /\ call.ret # <<>>
    /\ \E i \in 1..Len(rules) :
          /\ ~rules[i].enabled
          /\ Satisfied(rules[i], call.metrics)
          /\ rules[i].id \notin DOMAIN last_fire
          /\ EventsOf(events, rules[i].id) = <<>>

\* C3: the history holds at most 500 events, and it is the most recent (up to
\* 500) of the events fired, in firing order.
C3_BoundedHistory ==
    /\ Len(events) <= 500
    /\ Len(events) = (IF Len(fired) < 500 THEN Len(fired) ELSE 500)
    /\ events = SubSeq(fired, Len(fired) - Len(events) + 1, Len(fired))

\* C3 witness: more than 500 events have fired and the history holds the last 500.
C3_Witness == Len(fired) > 500 /\ Len(events) = 500

\* No two rules of the engine share an id.
UniqueIds(rs) == \A i, j \in 1..Len(rs) : rs[i].id = rs[j].id => i = j

\* C4: add_rule with the id of a rule already in the engine leaves the rule
\* list as it is, and no two rules of the engine ever share an id.
C4_AddRuleIdempotent ==
    /\ []UniqueIds(rules)
    /\ [][(call'.op = "add_rule" /\ \E i \in 1..Len(rules) : rules[i].id = call'.rule.id)
            => rules' = rules]_vars

\* C4 witness: add_rule was called with a rule whose id is held by a different
\* rule, and that original rule is still in the list.
C4_Witness ==
    /\ call.op = "add_rule"
    /\ \E i \in 1..Len(rules) : rules[i].id = call.rule.id /\ rules[i] # call.rule
    /\ Len(rules) >= 2

\* C5: remove_rule(id) returns true exactly when a rule with that id was in the
\* engine; afterwards none is, the other rules keep their order, and for an
\* absent id the list is unchanged.
C5_RemoveRule ==
    [][call'.op = "remove_rule" =>
        LET id      == call'.id
            present == \E i \in 1..Len(rules) : rules[i].id = id
        IN  /\ call'.ret = present
            /\ \A j \in 1..Len(rules') : rules'[j].id # id
            /\ rules' = SelectSeq(rules, LAMBDA r : r.id # id)
            /\ ~present => rules' = rules]_vars

\* C5 witness: a rule was removed from between two others, which remain.
C5_Witness ==
    /\ call.op = "remove_rule"
    /\ call.ret = TRUE
    /\ Len(rules) = 2
    /\ rules[1].id = "r3" /\ rules[2].id = "r1" /\ call.id = "r2"

\* C6: clear_events empties the history (get_events returns nothing) and leaves
\* the rules alone, and a rule that was inside its cooldown when clear_events
\* was called fires on the next evaluate that satisfies it.
C6_ClearEvents ==
    [][/\ call'.op = "clear_events" =>
            /\ events' = <<>>
            /\ \A limit \in {0, 1, 100} : get_events(events', limit) = <<>>
            /\ rules' = rules
       /\ IsEvaluate =>
            \A i \in 1..Len(rules) :
                LET r == rules[i] IN
                ( /\ \E c \in cooled : c.id = r.id
                  /\ r.enabled
                  /\ Satisfied(r, call'.metrics) ) =>
                    /\ Len(EventsOf(call'.ret, r.id)) = 1
                    /\ EventsOf(call'.ret, r.id)[1].timestamp = call'.now
                    /\ EventsOf(events', r.id) = EventsOf(call'.ret, r.id)]_vars

\* C6 witness: a rule fired in the first evaluate after clear_events, at a time
\* still inside the cooldown window it was in when clear_events was called.
C6_Witness ==
    /\ call.op = "evaluate"
    /\ \E c \in call.cooled :
          /\ call.now < c.until
          /\ EventsOf(call.ret, c.id) # <<>>
          /\ EventsOf(fired, c.id) = EventsOf(call.ret, c.id)

(***************************************************************************)
(* Properties of thermal_pressure_level                                    *)
(***************************************************************************)
\* The argument is one of the five vocabulary words, in some letter case.
IsVocabularyWord(in) == in.word \in 1..Len(THERMAL_PRESSURE_ORDER)

\* C7 as stated: the five words map to 0..4 whatever their letter case, and
\* every other argument (None, "", any other string) maps to -1.
C7_AsStated ==
    tp_pc = "done" =>
        tp_ret = (IF IsVocabularyWord(tp_in) /\ tp_in.padL = <<>> /\ tp_in.padR = <<>>
                  THEN tp_in.word - 1 ELSE -1)

\* C7 amended: the five words map to 0..4 whatever their letter case and
\* whatever whitespace surrounds them, and every other argument maps to -1.
C7_CaseAndPaddingInsensitive ==
    tp_pc = "done" =>
        tp_ret = (IF IsVocabularyWord(tp_in) THEN tp_in.word - 1 ELSE -1)

\* C7 witness: "Critical" with some letters recased and whitespace on both
\* sides was mapped to 4.
C7_Witness ==
    /\ tp_pc = "done"
    /\ tp_in.word = 5 /\ tp_in.flip # {} /\ tp_in.padL # <<>> /\ tp_in.padR # <<>>
    /\ tp_ret = 4


C9_CacheWindow ==
    (~IsNone(thiscall) /\ ~IsNone(thiscall.prior)) =>
        LET g == thiscall.prior IN
        IF thiscall.start - g.start < ttl
        THEN /\ ~thiscall.invoked
             /\ thiscall.ret = g.ret
             /\ thiscall.runs = g.runs
        ELSE /\ thiscall.invoked
             /\ thiscall.runs > g.runs

\* C9 witness: after a run that produced text, a later call inside the window
\* was served that text, and the call after it, made once the window had
\* passed, ran the tool again.
C9_Witness ==
    /\ ~IsNone(lastcall) /\ ~IsNone(thiscall)
    /\ ~IsNone(lastcall.prior) /\ lastcall.prior = thiscall.prior
    /\ ~lastcall.invoked
    /\ lastcall.start > lastcall.prior.start
    /\ lastcall.ret = lastcall.prior.ret
    /\ thiscall.invoked
    /\ thiscall.start - thiscall.prior.start >= ttl

\* C10: the cached text is never empty; a run that returned empty text leaves
\* the cache entry as it was; and the call after such a run runs the tool again.
C10_OnlyTextIsCached ==
    /\ [](~IsNone(cache) => Len(cache.text) > 0)
    /\ []((~IsNone(lastcall) /\ ~IsNone(thiscall) /\ lastcall.invoked /\ lastcall.ret = <<>>)
            => thiscall.invoked)
    /\ [][\A c \in Callers :
            (cpc[c] = "store" /\ cpc'[c] = "idle" /\ craw[c] = <<>>) => cache' = cache]_vars

\* C10 witness: with an expired entry in the cache, a run returned empty text,
\* the entry stayed, and the next call, made at once, ran the tool again.
C10_Witness ==
    /\ ~IsNone(lastcall) /\ ~IsNone(thiscall)
    /\ lastcall.invoked /\ lastcall.ret = <<>>
    /\ thiscall.invoked /\ thiscall.start = lastcall.end
    /\ ~IsNone(cache) /\ cache.ts < lastcall.start
    /\ cache.text = lastcall.prior.ret

(***************************************************************************)
(* Properties of the collectors                                            *)
(***************************************************************************)
\* C11: PsutilCollector called on a platform other than Darwin returns a result
\* with success false, an error string and no data, whether it is called
\* through collect or through collect_safe, and neither raises.
C11_UnsupportedPlatform ==
    (col_pc = "done" /\ col_call.name = "psutil" /\ host.platform # "Darwin") =>
        /\ col_raw.kind = "return"
        /\ col_out.kind = "return"
        /\ col_out.value.success = FALSE
        /\ ~IsNone(col_out.value.error)
        /\ col_out.value.data = EmptyMap

\* C11 witness: on Linux with psutil installed, collect returned the
\* platform-mismatch failure.
C11_Witness ==
    /\ col_pc = "done" /\ col_call = [name |-> "psutil", safe |-> FALSE]
    /\ host = [platform |-> "Linux", psutil |-> TRUE]
    /\ col_out = Returned(CollectorResult(FALSE, Text("Not macOS"), EmptyMap))

\* C12: collect_safe always returns; when collect raised, what it returns is a
\* result with success false, the exception's text as error and no data; when
\* collect returned, it returns that very result.
C12_CollectSafe ==
    (col_pc = "done" /\ col_call.safe) =>
        /\ col_out.kind = "return"
        /\ IF col_raw.kind = "raise"
           THEN /\ col_out.value.success = FALSE
                /\ col_out.value.error = Text(col_raw.text)
                /\ col_out.value.data = EmptyMap
           ELSE col_out = col_raw

\* C12 witness: a helper tool could not be executed, collect raised
\* PermissionError, and collect_safe returned the failed result.
C12_Witness ==
    /\ col_pc = "done" /\ col_call = [name |-> "external_tools", safe |-> TRUE]
    /\ col_raw.kind = "raise" /\ col_raw.type = "PermissionError"
    /\ col_out.kind = "return"
    /\ col_out.value.success = FALSE
    /\ col_out.value.error = Text(col_raw.text)

\* C13: whatever the helper tools do (not installed, timed out, permission
\* denied, non-zero exit, output with or without readings), collect of the
\* external-tools collector returns, with success true and the two maps
\* temperatures_extra and fan_speeds_extra.
C13_ExternalNeverFails ==
    (col_pc = "done" /\ col_call.name = "external_tools") =>
        /\ col_raw.kind = "return"
        /\ col_raw.value.success = TRUE
        /\ DOMAIN col_raw.value.data = {"temperatures_extra", "fan_speeds_extra"}

(***************************************************************************)
(* Properties of _parse_powermetrics                                       *)
(***************************************************************************)
\* The lines of a text, each with its position.
Indexed(text) == [i \in 1..Len(text) |-> [i |-> i, l |-> text[i]]]

\* The matches that yield a power reading, in the order the pass finds them:
\* those of the milliwatt pattern, the combined reading, those of the watt
\* pattern. Each is the sensor key it maps to and its value.
PowerMatches(text) ==
    LET milli == SelectSeq(Indexed(text),
                     LAMBDA e : e.l.k \in {"mW", "W"} /\ e.l.v # Bad)
        comb  == SelectSeq(text, LAMBDA l : l.k = "combined")
        watt  == SelectSeq(Indexed(text),
                     LAMBDA e : /\ e.l.k = "W" /\ e.l.v # Bad
                                /\ Sensor(Prefixed(text, e.i), e.l.name) \notin
                                       {Plain("Combined"), Plain("Total")})
    IN  [j \in 1..Len(milli) |-> [key |-> Plain(milli[j].l.name), value |-> milli[j].l.v]]
        \o (IF comb # <<>> /\ Head(comb).v # Bad
            THEN <<[key |-> Plain("Combined"), value |-> Head(comb).v]>> ELSE <<>>)
        \o [j \in 1..Len(watt) |->
               [key |-> Sensor(Prefixed(text, watt[j].i), watt[j].l.name),
                value |-> Num(1000 * watt[j].l.v.n)]]

\* The matches of the named-temperature pattern, in order.
TemperatureMatches(text) ==
    LET die == SelectSeq(Indexed(text), LAMBDA e : e.l.k = "die" /\ e.l.v # Bad)
    IN  [j \in 1..Len(die) |->
            [key |-> Sensor(Prefixed(text, die[j].i), DieTemperatureName(die[j].l.name)),
             value |-> die[j].l.v]]

\* The matches of the fan pattern, in order.
FanMatches(text) ==
    LET speed == SelectSeq(text, LAMBDA l : l.k = "speed")
    IN  [j \in 1..Len(speed) |->
            [key |-> FanName(IF speed[j].label < 0 THEN 0 ELSE speed[j].label),
             value |-> speed[j].v]]

\* The value of the first match for key.
FirstValue(ms, key) ==
    ms[CHOOSE j \in 1..Len(ms) : ms[j].key = key /\ \A h \in 1..(j - 1) : ms[h].key # key].value

\* A map holds, for every key some match maps to, the value of the first one.
FirstMatchWins(ms, map) ==
    \A j \in 1..Len(ms) : ms[j].key \in DOMAIN map /\ map[ms[j].key] = FirstValue(ms, ms[j].key)

\* C17: in one parse pass, the value stored for a power subsystem, a named
\* temperature or a fan is the value of the first match that maps to its key;
\* later matches for the key do not overwrite it.
C17_FirstMatchWins ==
    pm_pc = "done" =>
        /\ FirstMatchWins(PowerMatches(pm_text), pm_out.power_estimates)
        /\ FirstMatchWins(TemperatureMatches(pm_text), pm_out.temperatures)
        /\ FirstMatchWins(FanMatches(pm_text), pm_out.fan_speeds)

(***************************************************************************)
(* Properties of collect, collect_full and cmd_collect                     *)
(***************************************************************************)
\* The host is one collect() refuses.
Unsupported == host.platform # "Darwin" \/ ~host.psutil

\* cmd_collect returned, or metrics.main left through sys.exit.
Exited == cli_out \in {Num(0), Num(1)}

\* collect() has returned the snapshot in snap.
Collected == snap_pc \in {"full", "decide"} \/ (Exited /\ snap_phase # "watch")

\* C14 as stated: the snapshot error is set exactly on an unsupported platform
\* or without the metrics library; then every other field is at its default,
\* no tool and no further collector was run; nothing else sets the error.
C14_AsStated ==
    /\ ~Unsupported => ~Truthy(snap.error)
    /\ Collected /\ Unsupported =>
        /\ Truthy(snap.error)
        /\ snap = [MacMetrics EXCEPT !.error = snap.error]
        /\ snap_log = {}

\* C14, amended: as above, but the snapshot carries the time of its
\* collection in timestamp.
C14_ErrorSnapshot ==
    /\ ~Unsupported => ~Truthy(snap.error)
    /\ Collected /\ Unsupported =>
        /\ Truthy(snap.error)
        /\ snap = [MacMetrics EXCEPT !.error = snap.error, !.timestamp = snap.timestamp]
        /\ snap.timestamp.n \in StartTime..wall
        /\ snap_log = {}

\* collect_full returned the error snapshot of an unsupported host.
C14_Witness ==
    /\ Unsupported /\ cli_args.full /\ snap_pc = "decide"
    /\ Truthy(snap.error)
    /\ snap.timestamp = Num(StartTime)

\* C15: the collect command exits with code 1 when the snapshot carries an
\* error and with code 0 otherwise, whatever the flags.
C15_ExitCode ==
    Exited => (cli_out = Num(1) <=> Truthy(snap.error))

\* The merged map m of the primary readings found and the external readings
\* extra, as the claim describes it.
IsMergeOf(m, found, extra) ==
    /\ DOMAIN m = (DOMAIN found) \cup (DOMAIN extra)
    /\ \A k \in DOMAIN found : m[k] = found[k]
    /\ \A k \in (DOMAIN extra) \ (DOMAIN found) : m[k] = extra[k]

\* C18: in the snapshot, a temperature or fan key the primary sensor tool
\* found keeps the primary value, a key only the external tools found has the
\* external value, and the keys are exactly those of both.
C18_PrimaryWins ==
    /\ IsMergeOf(snap.temperatures, snap_found.temperatures, snap_extra.temperatures)
    /\ IsMergeOf(snap.fan_speeds, snap_found.fan_speeds, snap_extra.fan_speeds)

\* Both sources read a fan and disagree, and the external tools read one more.
C18_Witness ==
    /\ snap_pc = "decide"
    /\ \E k \in (DOMAIN snap_found.fan_speeds) \cap (DOMAIN snap_extra.fan_speeds) :
           snap_found.fan_speeds[k] # snap_extra.fan_speeds[k]
    /\ (DOMAIN snap_extra.fan_speeds) \ (DOMAIN snap_found.fan_speeds) # {}

(***************************************************************************)
(* Properties of config                                                    *)
(***************************************************************************)
\* The value the environment supplies for the i-th overridable setting: the
\* variable holds a number other than 0.
EnvSupplies(i) == _env_overrides(environ)[i].value # 0

\* The last file loaded supplies a value for the path.
FileSupplies(path) == IsNum(WalkPath(Map(cfg_file), path, None))

\* C16: a setting supplied both by an environment variable and by the config
\* file resolves to the environment's value.
C16_EnvironmentWins ==
    cfg_pc = "ready" =>
        \A i \in 1..Len(_env_overrides(environ)) :
            LET e == _env_overrides(environ)[i] IN
            EnvSupplies(i) /\ FileSupplies(e.path) =>
                get(_config_overrides, e.path, None) = Num(e.value)

(***************************************************************************)
(* Properties of evaluate on missing values and on the thermal level       *)
(***************************************************************************)
\* float() accepts the value: a number, or a string of decimal digits.
IsNumeric(v) == IsNum(v) \/ (IsStr(v) /\ IsDigits(v.s))

\* The snapshot has no value for the key, has None, or, for a key other than
\* the thermal level, has a value that is no number.
Unresolvable(metrics, key) ==
    \/ key \notin DOMAIN metrics
    \/ IsNone(metrics[key])
    \/ key # "thermal_pressure" /\ ~IsNumeric(metrics[key])

\* The rule is enabled, satisfied by the snapshot and out of its cooldown at
\* the time of the call.
Due(q, metrics, now) ==
    /\ q.enabled
    /\ Satisfied(q, metrics)
    /\ now - Get(last_fire, q.id, 0) >= q.cooldown_sec

\* C19: in an evaluate call, a rule whose metric is missing from the snapshot,
\* null or not convertible to a number yields no event, keeps its last-fire
\* time and its events in the history, and every other rule that is due
\* still fires in the same call.
C19_MissingMetricSkipped ==
    [][IsEvaluate =>
        \A i \in 1..Len(rules) :
            LET r == rules[i] IN
            Unresolvable(call'.metrics, r.metric) =>
                /\ EventsOf(call'.ret, r.id) = <<>>
                /\ EventsOf(events', r.id) = EventsOf(events, r.id)
                /\ (r.id \in DOMAIN last_fire') = (r.id \in DOMAIN last_fire)
                /\ Get(last_fire', r.id, 0) = Get(last_fire, r.id, 0)
                /\ \A j \in 1..Len(rules) :
                      (j # i /\ Due(rules[j], call'.metrics, call'.now)) =>
                          Len(EventsOf(call'.ret, rules[j].id)) = 1]_vars

\* A rule on cpu_percent met the string "abc" and was passed over, and a rule
\* after it fired in the same call.
C19_Witness ==
    /\ call.op = "evaluate"
    /\ "cpu_percent" \in DOMAIN call.metrics
    /\ call.metrics["cpu_percent"] = Str(W_abc)
    /\ \E i, j \in 1..Len(rules) :
          /\ i < j
          /\ rules[i].metric = "cpu_percent"
          /\ EventsOf(call.ret, rules[i].id) = <<>>
          /\ EventsOf(call.ret, rules[j].id) # <<>>

\* The level of a snapshot, the words of the vocabulary whatever their letter
\* case, and the place of such a word in the order.
LevelOf(metrics) == Get(metrics, "thermal_pressure", None)

InVocabulary(s) ==
    \E k \in 1..Len(THERMAL_PRESSURE_ORDER) : Lower(s) = Lower(THERMAL_PRESSURE_ORDER[k])

OrdinalOf(s) ==
    (CHOOSE k \in 1..Len(THERMAL_PRESSURE_ORDER) :
        Lower(s) = Lower(THERMAL_PRESSURE_ORDER[k])) - 1

\* The events of rule id on record before the call that call describes.
EarlierEvents(id) ==
    EventsOf(SubSeq(fired, 1, Len(fired) - Len(call.ret)), id)

\* The rule was in its cooldown when the call was made: it had fired less
\* than cooldown_sec before.
WasCooling(r) ==
    LET prev == EarlierEvents(r.id) IN
    prev # <<>> /\ call.now - prev[Len(prev)].timestamp < r.cooldown_sec

\* What C20 says of the evaluate call just made when word is the level's
\* word: a rule on the thermal level was compared with the ordinal of the
\* word, which is what utils gives, and its event carries that ordinal; when
\* the level is no string or word is outside the vocabulary, the rule did not
\* fire.
ThermalRuleFollows(word) ==
    \A i \in 1..Len(rules) :
        LET r     == rules[i]
            level == LevelOf(call.metrics)
            new   == EventsOf(call.ret, r.id)
        IN  (r.enabled /\ r.metric = "thermal_pressure") =>
                IF IsStr(level) /\ InVocabulary(word)
                THEN /\ thermal_pressure_level(level) = OrdinalOf(word)
                     /\ (new # <<>>) <=>
                            (_eval_rule(r, OrdinalOf(word)) /\ ~WasCooling(r))
                     /\ \A n \in 1..Len(new) : new[n].value = OrdinalOf(word)
                ELSE new = <<>>

\* The level's word: the string itself, or the string without the whitespace
\* around it. (None and a number have no word.)
WordOf(level) == IF IsStr(level) THEN level.s ELSE <<>>

\* C20 as stated: the level is matched against the vocabulary as it is,
\* whatever its letter case.
C20_AsStated ==
    call.op = "evaluate" => ThermalRuleFollows(WordOf(LevelOf(call.metrics)))

\* C20, amended: the level is matched whatever its letter case and whatever
\* whitespace surrounds it.
C20_ThermalOrdinal ==
    call.op = "evaluate" => ThermalRuleFollows(Strip(WordOf(LevelOf(call.metrics))))

\* A rule on the thermal level fired on "critical " with the value 4.
C20_Witness ==
    /\ call.op = "evaluate"
    /\ LevelOf(call.metrics) = Str(Recase(W_Critical, {1}) \o Pad(1))
    /\ \E n \in 1..Len(call.ret) :
          call.ret[n].metric = "thermal_pressure" /\ call.ret[n].value = 4

(***************************************************************************)
(* Properties of merge_into on nested mappings                             *)
(***************************************************************************)
\* old and inc unified at every depth: a key of one side only keeps its
\* value, mappings on both sides are unified in turn, and anywhere else the
\* incoming value stands.
RECURSIVE UnifiedAtEveryDepth(_, _)
UnifiedAtEveryDepth(old, inc) ==
    [k \in (DOMAIN old) \cup (DOMAIN inc) |->
        IF k \notin DOMAIN inc THEN old[k]
        ELSE IF k \notin DOMAIN old THEN inc[k]
        ELSE IF IsMap(old[k]) /\ IsMap(inc[k])
        THEN Map(UnifiedAtEveryDepth(old[k].m, inc[k].m))
        ELSE inc[k]]

\* C21: merge_into unifies mappings met on both sides at every nesting depth,
\* so that an accumulator key at any depth the incoming data does not mention
\* survives.
C21_MergeAtEveryDepth ==
    mg_pc = "done" => mg_out = UnifiedAtEveryDepth(mg_target, mg_data)

(***************************************************************************)
(* Properties of the sampling cache under two concurrent callers           *)
(***************************************************************************)
\* The tool texts a successful run can hand back.
CompleteOutputs == {o.stdout : o \in {x \in ToolOutcomes : SamplerSucceeded(x)}}

\* C22: under every interleaving of two callers the cache is unset or the pair
\* (start time, text) of one single call: the text is the whole non-blank
\* output of one tool run and the time is the start time that same caller
\* took; a store only ever puts the storing caller's own pair in place.
C22_CacheNeverTorn ==
    /\ [](~IsNone(cache) =>
            /\ cache.text \in CompleteOutputs
            /\ ~IsNone(goodrun)
            /\ cache = CachePair(goodrun.start, goodrun.ret))
    /\ [][cache' # cache =>
            \E c \in Callers :
                /\ cpc[c] = "store" /\ cpc'[c] = "idle"
                /\ craw[c] \in CompleteOutputs
                /\ cache' = CachePair(cnow[c], craw[c])]_vars

\* C22 witness: two callers ran the tool at overlapping times and got different
\* texts; the one that started first stored last, so its pair replaced the
\* other caller's pair whole.
C22_Witness ==
    /\ ~IsNone(lastcall) /\ ~IsNone(thiscall)
    /\ lastcall.caller # thiscall.caller
    /\ lastcall.invoked /\ thiscall.invoked
    /\ lastcall.ret # <<>> /\ thiscall.ret # <<>> /\ lastcall.ret # thiscall.ret
    /\ thiscall.start < lastcall.start /\ lastcall.start < lastcall.end
    /\ cache = CachePair(thiscall.start, thiscall.ret)

\* C30: once a call that ran the tool and got text has returned, a call made
\* less than ttl after that return is served the cached text and runs the tool
\* no further time, however long the run itself took.
C30_WindowFromReturn ==
    (/\ ~IsNone(thiscall) /\ ~IsNone(thiscall.prior)
     /\ thiscall.start >= thiscall.prior.end
     /\ thiscall.start - thiscall.prior.end < ttl) =>
        /\ ~thiscall.invoked
        /\ thiscall.ret = thiscall.prior.ret
        /\ thiscall.runs = thiscall.prior.runs

(***************************************************************************)
(* Properties of PowermetricsCollector                                     *)
(***************************************************************************)
\* What the claim calls a configuration that is skipped, and one accepted.
OnlyBlanks(text) == \A i \in 1..Len(text) : IsSpace(text[i])
Skipped(o) ==
    \/ o.kind \in {"TimeoutExpired", "FileNotFoundError", "PermissionError"}
    \/ o.kind = "exit" /\ (o.returncode # 0 \/ OnlyBlanks(o.stdout))
Accepted(o) == o.kind = "exit" /\ o.returncode = 0 /\ ~OnlyBlanks(o.stdout)

EmptyReading ==
    [temperatures |-> EmptyMap, fan_speeds |-> EmptyMap, power_estimates |-> EmptyMap,
     thermal_pressure |-> None, smc_available |-> FALSE]

\* C24: on a cache miss the configurations are run in the fixed order, each
\* one run only after all before it were skipped (timed out, not found, denied,
\* non-zero exit, blank output); the call returns the output of the first
\* accepted run, or the empty text after all three were skipped, and collect
\* then returns success=true with empty maps and no thermal_pressure.
C24_SamplersInOrder ==
    LET n == Len(col_seen) IN
    /\ n <= Len(SAMPLERS)
    /\ \A i \in 1..n : col_seen[i].samplers = SAMPLERS[i]
    /\ \A i \in 1..(n - 1) : Skipped(col_seen[i].did)
    /\ (col_pc = "done" /\ col_call.name = "powermetrics" /\ thiscall.invoked) =>
          /\ n >= 1
          /\ IF Accepted(col_seen[n].did)
             THEN thiscall.ret = col_seen[n].did.stdout
             ELSE /\ n = Len(SAMPLERS)
                  /\ thiscall.ret = <<>>
                  /\ col_out = Returned(CollectorResult(TRUE, None, EmptyReading))

\* C24 witness: the first configuration timed out, the second printed blanks,
\* the third exited non-zero, and collect returned the empty reading.
C24_Witness ==
    /\ col_pc = "done" /\ col_call.name = "powermetrics" /\ thiscall.invoked
    /\ Len(col_seen) = 3
    /\ col_seen[1].did.kind = "TimeoutExpired"
    /\ col_seen[2].did.kind = "exit" /\ col_seen[2].did.returncode = 0
    /\ col_seen[2].did.stdout # <<>>
    /\ col_seen[3].did.kind = "exit" /\ col_seen[3].did.returncode = 1
    /\ col_seen[3].did.stdout # <<>>
    /\ col_out = Returned(CollectorResult(TRUE, None, EmptyReading))

(***************************************************************************)
(* Properties of get_events                                                *)
(***************************************************************************)
\* C28: get_events(limit) returns the min(limit, len) most recent events,
\* newest first, for every limit >= 0, and leaves the history as it was.
C28_AtMostLimit ==
    /\ [](call.op = "get_events" =>
            LET n == Len(events)
                k == IF call.limit > n THEN n ELSE call.limit
            IN  /\ Len(call.ret) <= call.limit
                /\ call.ret = [i \in 1..k |-> events[n + 1 - i]])
    /\ [][call'.op = "get_events" => events' = events]_vars

(***************************************************************************)
(* Properties of a rule that has no last-fire time                         *)
(***************************************************************************)
\* C29: in an evaluate call, an enabled rule with no entry in the last-fire
\* map whose metric the snapshot resolves and satisfies records one event,
\* whatever its cooldown_sec and whatever the clock reads.
C29_FirstFire ==
    [][IsEvaluate =>
        \A i \in 1..Len(rules) :
            LET r == rules[i] IN
            (r.enabled /\ r.id \notin DOMAIN last_fire /\ Satisfied(r, call'.metrics)) =>
                /\ Len(EventsOf(call'.ret, r.id)) = 1
                /\ r.id \in DOMAIN last_fire']_vars

(***************************************************************************)
(* Properties of an engine polled from two threads                         *)
(***************************************************************************)
\* C23: with two threads inside evaluate, two events of one rule in the
\* history are never less than the rule's cooldown_sec apart, and the history
\* never holds more than 500 events.
C23_OneEventPerWindow ==
    /\ Len(events) <= _max_events
    /\ \A i, j \in 1..Len(events) :
          (i < j /\ events[i].rule_id = events[j].rule_id) =>
              \A k \in 1..Len(rules) :
                  rules[k].id = events[i].rule_id =>
                      events[j].timestamp - events[i].timestamp >= rules[k].cooldown_sec

(***************************************************************************)
(* Properties of HistoryPersistence                                        *)
(***************************************************************************)
\* The last k elements of a sequence (all of them when it has fewer).
LastOf(seq, k) ==
    LET n == Len(seq)
        m == IF k > n THEN n ELSE k
    IN  [i \in 1..m |-> seq[n - m + i]]

Failed(wrote) == wrote \in {"open_error", "dump_error"}

\* C25: after an append the buffer holds at most max_points points: the most
\* recent ones of what it held plus the new point, in append order; and while
\* only append has put points in the buffer, it holds the most recently
\* appended points of all.
C25_BoundedBuffer ==
    /\ hp_call.op = "append" =>
          /\ Len(hp_buffer) <= hp_conf.max_points
          /\ hp_buffer = LastOf(Append(hp_call.before, hp_call.log[Len(hp_call.log)]),
                                hp_conf.max_points)
    /\ (hp_call.op = "append" /\ Len(hp_call.before) <= hp_conf.max_points
          /\ hp_call.before = LastOf(SubSeq(hp_call.log, 1, Len(hp_call.log) - 1),
                                      Len(hp_call.before))) =>
          hp_buffer = LastOf(hp_call.log,
                             IF Len(hp_call.before) + 1 < hp_conf.max_points
                             THEN Len(hp_call.before) + 1 ELSE hp_conf.max_points)

\* C25 witness: the third point was appended to a full buffer of two and the
\* first point was evicted.
C25_Witness ==
    /\ hp_call.op = "append"
    /\ hp_conf.max_points = 2
    /\ Len(hp_call.log) = 3
    /\ hp_call.before = SubSeq(hp_call.log, 1, 2)
    /\ hp_buffer = SubSeq(hp_call.log, 2, 3)

C27_LoadReturnsLast ==
    [][hp_call'.op = "load" =>
        /\ IF ~IsNone(hp_file) /\ hp_file.kind = "history"
           THEN hp_call'.ret =
                  LastOf([i \in 1..Len(hp_file.history) |-> JsonLoad(hp_file.history[i])],
                         hp_conf.max_points)
           ELSE hp_call'.ret = <<>>
        /\ (hp_call.op = "save" /\ hp_call.wrote = "ok") => hp_call'.ret = hp_buffer]_vars

====
